---- MODULE Spec2Model ----
(***************************************************************************)
(* Snapshot resampling, field interpolation and camera paths of the        *)
(* forest-fire video pipeline: SimulationDataExporter                      *)
(* (scripts/data_exporter.py), FrameInterpolator (scripts/interpolator.py) *)
(* and CameraPathController (scripts/camera_paths.py).                     *)
(*                                                                         *)
(* Times are integers (one unit = one tick of simulation time), a blend    *)
(* factor is the exact rational num/den, probabilities and random draws    *)
(* are fixed-point numbers in units of 1/One.  Python indices are kept     *)
(* 0-based; At(s, i) reads s[i].                                           *)
(***************************************************************************)
EXTENDS Integers, Sequences, FiniteSets, TLC

VARIABLES
    timestamps,  \* sorted_times / timestamps: the list of snapshot times
    snapshots,   \* the DataFrames, snapshots[k] taken at timestamps[k]
    sim_time,    \* sim_time / target_time: the query time
    call,        \* the method that ran last ("none" before the first call)
    ret,         \* what that call returned or raised
    alpha,       \* the local variable alpha of that call (NoAlpha if never assigned)
    draws,       \* the random numbers that call consumed
    args,        \* the arguments of a CameraPathController call, by parameter name
    files,       \* the files of the directories the call reads and writes
    pool,        \* the multiprocessing.Pool of the call: chunks, workers, first error
    locals       \* the local variables a call keeps between steps or leaves behind

vars == <<timestamps, snapshots, sim_time, call, ret, alpha, draws, args, files, pool, locals>>

----------------------------------------------------------------------------
(* Bounds of the resampler specification *)
MaxLen == 3
MaxTime == 8

(* Python values *)
At(s, i) == s[i + 1]

Return(v) == [kind |-> "return", value |-> v]

Raise(e) == [kind |-> "raise", exc |-> e]

NoReturn == [kind |-> "none"]

NoAlpha == [set |-> FALSE]

NoDraws == [used |-> FALSE]

NoArgs == [method |-> "none"]

NoFiles == {}

NoPool == [state |-> "none"]

NoLocals == [segment |-> 0, frame_counter |-> 0]

RECURSIVE SeqsUpTo(_, _)
SeqsUpTo(S, n) ==
    IF n = 0 THEN {<<>>}
    ELSE LET shorter == SeqsUpTo(S, n - 1)
         IN shorter \cup {Append(s, x) : s \in {t \in shorter : Len(t) = n - 1}, x \in S}

StrictlyIncreasing(T) == \A i \in 1..(Len(T) - 1) : T[i] < T[i + 1]

----------------------------------------------------------------------------
(* SimulationDataExporter._find_snapshot_indices *)

\* the for loop: the first i in range(len - 1) with T[i] <= q <= T[i+1], or -1
RECURSIVE find_loop(_, _, _)
find_loop(i, q, T) ==
    IF i >= Len(T) - 1 THEN -1
    ELSE IF At(T, i) <= q /\ q <= At(T, i + 1) THEN i
    ELSE find_loop(i + 1, q, T)

\* the same loop with strict comparisons (a plausible slip)
RECURSIVE find_loop_strict(_, _, _)
find_loop_strict(i, q, T) ==
    IF i >= Len(T) - 1 THEN -1
    ELSE IF At(T, i) < q /\ q < At(T, i + 1) THEN i
    ELSE find_loop_strict(i + 1, q, T)

find_snapshot_indices_strict(q, T) ==
    LET i == find_loop_strict(0, q, T)
    IN IF i >= 0 THEN Return(<<i, i + 1>>)
       ELSE IF Len(T) = 0 THEN Raise("IndexError")
       ELSE IF q < At(T, 0) THEN Return(<<0, 0>>)
       ELSE Return(<<Len(T) - 1, Len(T) - 1>>)

find_snapshot_indices(q, T) ==
    LET i == find_loop(0, q, T)
    IN IF i >= 0 THEN Return(<<i, i + 1>>)
       ELSE IF Len(T) = 0 THEN Raise("IndexError")   \* sorted_times[0] of an empty list
       ELSE IF q < At(T, 0) THEN Return(<<0, 0>>)
       ELSE Return(<<Len(T) - 1, Len(T) - 1>>)

----------------------------------------------------------------------------
(* The resampler specification: any list of times, any query *)

InitResampler ==
    /\ timestamps \in SeqsUpTo(1..MaxTime, MaxLen)
    /\ sim_time \in 0..(MaxTime + 1)
    /\ snapshots = <<>>
    /\ call = "none"
    /\ ret = NoReturn
    /\ alpha = NoAlpha
    /\ draws = NoDraws
    /\ args = NoArgs
    /\ files = NoFiles
    /\ pool = NoPool
    /\ locals = NoLocals

FindSnapshotIndices ==
    /\ call = "none"
    /\ call' = "_find_snapshot_indices"
    /\ ret' = find_snapshot_indices(sim_time, timestamps)
    /\ UNCHANGED <<timestamps, snapshots, sim_time, alpha, draws, args, files, pool, locals>>

NextResampler == FindSnapshotIndices

SpecResampler == InitResampler /\ [][NextResampler]_vars

----------------------------------------------------------------------------
(* DataFrames.  A frame is [index, cols]: index is the set of cells (x, y)  *)
(* of its rows, cols maps each column name to its values by cell.  Rows    *)
(* are in row-major order of (y, x).  Continuous values are the rationals  *)
(* [n, d] or NaN.                                                          *)

\* Bounds of the field specifications
MaxSnapshots == 2
MaxSimTime == 3
GridWidth == 2

\* 1.0 in fixed point (np.clip(probability, 0, 1), np.random.random in [0, 1))
One == 1000

States == {"Empty", "Tree", "Burning", "Burnt"}

continuous_cols == {"moisture", "temperature", "elevation"}

\* the cells of a single-row grid
Cells == {<<x, 0>> : x \in 0..(GridWidth - 1)}

NaN == [nan |-> TRUE]

Num(v) == [n |-> v, d |-> 1]

SetMax(S) == CHOOSE m \in S : \A x \in S : x <= m

\* width, height as interpolate_frames derives them from the first snapshot
width_of(frame) == SetMax({c[1] : c \in frame.index}) + 1

height_of(frame) == SetMax({c[2] : c \in frame.index}) + 1

\* variant: alpha measured back from t2, (t2 - sim_time) / (t2 - t1)
blend_factor_reversed(q, t1, t2) ==
    IF t2 # t1
    THEN IF t2 > t1 THEN [set |-> TRUE, num |-> t2 - q, den |-> t2 - t1]
                    ELSE [set |-> TRUE, num |-> q - t2, den |-> t1 - t2]
    ELSE [set |-> TRUE, num |-> 0, den |-> 1]

\* alpha = (sim_time - t1) / (t2 - t1) if t2 != t1 else 0, as num/den with den > 0
blend_factor(q, t1, t2) ==
    IF t2 # t1
    THEN IF t2 > t1 THEN [set |-> TRUE, num |-> q - t1, den |-> t2 - t1]
                    ELSE [set |-> TRUE, num |-> t1 - q, den |-> t1 - t2]
    ELSE [set |-> TRUE, num |-> 0, den |-> 1]

\* variant: the weights exchanged, alpha * v1 + (1 - alpha) * v2
blend_swapped(a, v1, v2) ==
    IF v1 = NaN \/ v2 = NaN THEN NaN
    ELSE [n |-> a.num * v1.n * v2.d + (a.den - a.num) * v2.n * v1.d,
          d |-> a.den * v1.d * v2.d]

\* (1 - alpha) * v1 + alpha * v2 for one cell; NaN if either operand is NaN
blend(a, v1, v2) ==
    IF v1 = NaN \/ v2 = NaN THEN NaN
    ELSE [n |-> (a.den - a.num) * v1.n * v2.d + a.num * v2.n * v1.d,
          d |-> a.den * v1.d * v2.d]

----------------------------------------------------------------------------
(* SimulationDataExporter._interpolate_states *)

\* variant: the threshold included, alpha >= transition_threshold
interpolate_states_inclusive(states1, states2, a) ==
    [c \in DOMAIN states1 |->
        IF states1[c] # states2[c] /\ 2 * a.num >= a.den THEN states2[c] ELSE states1[c]]

\* changed cells take states2 when alpha > transition_threshold (0.5)
interpolate_states(states1, states2, a) ==
    [c \in DOMAIN states1 |->
        IF states1[c] # states2[c] /\ 2 * a.num > a.den THEN states2[c] ELSE states1[c]]

(* SimulationDataExporter._interpolate_snapshot; result is [ret, alpha] *)
interpolate_snapshot(q, T, snaps, indices) ==
    LET idx1 == indices[1]
        idx2 == indices[2]
    IN IF idx1 = idx2
       THEN [ret |-> Return(At(snaps, idx1)), alpha |-> NoAlpha]
       ELSE
        LET snapshot1 == At(snaps, idx1)
            snapshot2 == At(snaps, idx2)
            a == blend_factor(q, At(T, idx1), At(T, idx2))
            cols1 == DOMAIN snapshot1.cols
            cols2 == DOMAIN snapshot2.cols
            \* Series arithmetic aligns on the labels; assigning the column
            \* reindexes to snapshot1's rows: a row missing from snapshot2 is NaN
            blended(col) ==
                [c \in snapshot1.index |->
                    IF c \in snapshot2.index
                    THEN blend(a, snapshot1.cols[col][c], snapshot2.cols[col][c])
                    ELSE NaN]
            column(col) ==
                IF col \in continuous_cols /\ col \in cols2 THEN blended(col)
                ELSE IF col = "state"
                THEN interpolate_states(snapshot1.cols["state"], snapshot2.cols["state"], a)
                ELSE snapshot1.cols[col]
        IN IF "state" \in cols1 /\ "state" \notin cols2
           THEN [ret |-> Raise("KeyError"), alpha |-> a]      \* snapshot2['state']
           ELSE IF "state" \in cols1 /\ snapshot1.index # snapshot2.index
           THEN [ret |-> Raise("ValueError"), alpha |-> a]    \* states1 != states2 on different labels
           ELSE [ret |-> Return([index |-> snapshot1.index,
                                 cols |-> [col \in cols1 |-> column(col)]]),
                 alpha |-> a]

----------------------------------------------------------------------------
(* FrameInterpolator *)

state_map == [s \in States |->
    CASE s = "Empty" -> 0 [] s = "Tree" -> 1 [] s = "Burning" -> 2 [] s = "Burnt" -> 3]

\* _states_to_grid: grid[y][x], 0 where the series has no row for the cell
states_to_grid(states, width, height) ==
    [y \in 0..(height - 1) |-> [x \in 0..(width - 1) |->
        IF <<x, y>> \in DOMAIN states THEN state_map[states[<<x, y>>]] ELSE 0]]

\* gaussian_filter(sigma=1.5): truncate 4.0 gives radius int(4 * 1.5 + 0.5)
Radius == 6

\* the normalised kernel exp(-k^2 / (2 * 1.5^2)) for |k| = 0..6, in 1/One
gaussian_kernel == <<266, 213, 109, 36, 8, 1, 0>>

Abs(k) == IF k < 0 THEN -k ELSE k

kernel_at(k) == gaussian_kernel[Abs(k) + 1]

\* mode='reflect' (d c b a | a b c d | d c b a): the index read for position i
reflect(i, n) ==
    LET j == i % (2 * n)
    IN IF j >= n THEN 2 * n - 1 - j ELSE j

\* the weight with which position j of an axis of length n enters output i:
\* the sum of the kernel taps k, from tap k on, that read position j
RECURSIVE kernel_response(_, _, _, _)
kernel_response(i, j, n, k) ==
    IF k > Radius THEN 0
    ELSE (IF reflect(i + k, n) = j THEN kernel_at(k) ELSE 0)
         + kernel_response(i, j, n, k + 1)

\* the responses of every axis length up to the grid width, computed once
axis_response ==
    [n \in 1..GridWidth |-> [i \in 0..(n - 1) |-> [j \in 0..(n - 1) |->
        kernel_response(i, j, n, -Radius)]]]

\* one output cell: the sum over the source cells (x2, y2), row by row
RECURSIVE filter_sum(_, _, _, _, _, _, _)
filter_sum(grid, width, height, x, y, x2, y2) ==
    IF y2 >= height THEN 0
    ELSE IF x2 >= width THEN filter_sum(grid, width, height, x, y, 0, y2 + 1)
    ELSE (IF grid[y2][x2] = 0 THEN 0
          ELSE grid[y2][x2] * axis_response[height][y][y2] * axis_response[width][x][x2])
         + filter_sum(grid, width, height, x, y, x2 + 1, y2)

\* gaussian_filter: the separable kernel applied along both axes; result in 1/One
gaussian_filter(grid, width, height) ==
    [y \in 0..(height - 1) |-> [x \in 0..(width - 1) |->
        filter_sum(grid, width, height, x, y, 0, 0) \div One]]

\* fire_influence: the smoothed indicator of the cells Burning in states_before
fire_influence(states_before, width, height) ==
    LET grid_before == states_to_grid(states_before, width, height)
        burning_before == [y \in 0..(height - 1) |-> [x \in 0..(width - 1) |->
                              IF grid_before[y][x] = 2 THEN 1 ELSE 0]]
    IN gaussian_filter(burning_before, width, height)

clip(v, lo, hi) == IF v < lo THEN lo ELSE IF v > hi THEN hi ELSE v

\* the probability map without the scale factor 2
create_fire_front_probability_unscaled(states_before, width, height, a, noise) ==
    LET influence == fire_influence(states_before, width, height)
    IN [c \in DOMAIN noise |->
           [n |-> clip((influence[c[2]][c[1]] + noise[c]) * a.num, 0, One * a.den),
            d |-> One * a.den]]

\* the probability map without the noise term
create_fire_front_probability_noiseless(states_before, width, height, a, noise) ==
    LET influence == fire_influence(states_before, width, height)
    IN [c \in DOMAIN noise |->
           [n |-> clip(2 * influence[c[2]][c[1]] * a.num, 0, One * a.den),
            d |-> One * a.den]]

\* _create_fire_front_probability: clip(fire_influence*alpha*2 + noise*alpha, 0, 1)
\* as the rational n/d, for the cells whose noise draw is given
create_fire_front_probability(states_before, width, height, a, noise) ==
    LET influence == fire_influence(states_before, width, height)
    IN [c \in DOMAIN noise |->
           [n |-> clip((2 * influence[c[2]][c[1]] + noise[c]) * a.num, 0, One * a.den),
            d |-> One * a.den]]

\* the sample values of np.random.random() and np.random.normal(0, 0.1), in 1/One
UniformDraws == {0, 300, 900}

NoiseDraws == {-100, 100}

\* variant: every tree that is no tree afterwards
tree_to_burning_any(states_before, states_after) ==
    {c \in DOMAIN states_before : states_before[c] = "Tree" /\ states_after[c] # "Tree"}

tree_to_burning(states_before, states_after) ==
    {c \in DOMAIN states_before : states_before[c] = "Tree" /\ states_after[c] = "Burning"}

burning_to_burnt(states_before, states_after) ==
    {c \in DOMAIN states_before : states_before[c] = "Burning" /\ states_after[c] = "Burnt"}

\* variant: a generator seeded from the arguments, every call draws the same
RandomDraws_seeded(states_before, states_after) ==
    [noise : [tree_to_burning(states_before, states_after) -> {100}],
     ignite : [tree_to_burning(states_before, states_after) -> {300}],
     burnout : [burning_to_burnt(states_before, states_after) -> {300}]]

\* The random numbers one call may consume.  The draws of the cells outside
\* a mask are discarded by the "&" with that mask and are left out.
RandomDraws(states_before, states_after) ==
    [noise : [tree_to_burning(states_before, states_after) -> NoiseDraws],
     ignite : [tree_to_burning(states_before, states_after) -> UniformDraws],
     burnout : [burning_to_burnt(states_before, states_after) -> UniformDraws]]

\* the surrounding snapshots: idx_before, idx_after
fire_bracket(T, q) ==
    LET i == find_loop(0, q, T)
    IN IF i >= 0 THEN <<i, i + 1>> ELSE <<0, Len(T) - 1>>

\* tree_mask = tree_to_burning & (transition_prob > random)
tree_mask(states_before, states_after, width, height, a, rnd) ==
    LET transition_prob ==
            create_fire_front_probability(states_before, width, height, a, rnd.noise)
    IN {c \in tree_to_burning(states_before, states_after) :
           transition_prob[c].n * One > rnd.ignite[c] * transition_prob[c].d}

\* the burnt mask without "burning_to_burnt &": every cell is tested
burnt_mask_unmasked(states_before, states_after, a, rnd) ==
    {c \in DOMAIN states_before :
        LET u == IF c \in DOMAIN rnd.burnout THEN rnd.burnout[c] ELSE 0
        IN u * a.den * a.den < One * a.num * a.num}

\* burnt_mask = burning_to_burnt & (random < alpha ** 2)
burnt_mask(states_before, states_after, a, rnd) ==
    {c \in burning_to_burnt(states_before, states_after) :
        rnd.burnout[c] * a.den * a.den < One * a.num * a.num}

(* FrameInterpolator._interpolate_fire_states; result is [ret, alpha, draws] *)
interpolate_fire_states(snaps, T, q, width, height, rnd) ==
    LET idx_before == fire_bracket(T, q)[1]
        idx_after == fire_bracket(T, q)[2]
    IN IF idx_before = idx_after
       THEN [ret |-> Return(At(snaps, idx_before).cols["state"]),
             alpha |-> NoAlpha, draws |-> NoDraws]
       ELSE IF Len(T) = 0
       THEN [ret |-> Raise("IndexError"), alpha |-> NoAlpha, draws |-> NoDraws]
       ELSE
        LET states_before == At(snaps, idx_before).cols["state"]
            states_after == At(snaps, idx_after).cols["state"]
            a == blend_factor(q, At(T, idx_before), At(T, idx_after))
            burning == tree_mask(states_before, states_after, width, height, a, rnd)
            burnt == burnt_mask(states_before, states_after, a, rnd)
        IN IF a.num > 0
           THEN [ret |-> Return([c \in DOMAIN states_before |->
                                    IF c \in burnt THEN "Burnt"
                                    ELSE IF c \in burning THEN "Burning"
                                    ELSE states_before[c]]),
                 alpha |-> a,
                 draws |-> [used |-> TRUE, noise |-> rnd.noise,
                            ignite |-> rnd.ignite, burnout |-> rnd.burnout]]
           ELSE [ret |-> Return(states_before), alpha |-> a, draws |-> NoDraws]

----------------------------------------------------------------------------
(* The field specification: strictly increasing times, one complete grid   *)
(* of cell states per snapshot.  A behaviour is one call on these inputs.  *)
(* Rows in row-major order of a single-row grid are rows in x order.       *)

\* the strictly increasing lists of times that start at time 1
IncreasingTimes(maxLen, maxTime) ==
    {T \in SeqsUpTo(1..maxTime, maxLen) :
        Len(T) >= 1 /\ T[1] = 1 /\ StrictlyIncreasing(T)}

StateFrames ==
    {[index |-> Cells, cols |-> [col \in {"state"} |-> f]] : f \in [Cells -> States]}

\* a grid without vegetation
EmptyFrame ==
    [index |-> Cells, cols |-> [col \in {"state"} |-> [c \in Cells |-> "Empty"]]]

\* Any two grids for the snapshots a call reads, which are the two of
\* fire_bracket (the exporter reads one or both of them); the snapshots no
\* call reads are empty grids.
Init ==
    /\ timestamps \in IncreasingTimes(MaxSnapshots, MaxSimTime)
    /\ sim_time \in 0..(MaxSimTime + 1)
    /\ \E before \in StateFrames, after \in StateFrames :
        LET b == fire_bracket(timestamps, sim_time)
        IN /\ b[1] = b[2] => after = before
           /\ snapshots = [k \in 1..Len(timestamps) |->
                              IF k = b[1] + 1 THEN before
                              ELSE IF k = b[2] + 1 THEN after
                              ELSE EmptyFrame]
    /\ call = "none"
    /\ ret = NoReturn
    /\ alpha = NoAlpha
    /\ draws = NoDraws
    /\ args = NoArgs
    /\ files = NoFiles
    /\ pool = NoPool
    /\ locals = NoLocals

\* one frame of export_for_video: _find_snapshot_indices, then _interpolate_snapshot
InterpolateSnapshot ==
    /\ call = "none"
    /\ call' = "_interpolate_snapshot"
    /\ LET snapshot_idx == find_snapshot_indices(sim_time, timestamps)
           frame == interpolate_snapshot(sim_time, timestamps, snapshots, snapshot_idx.value)
       IN IF snapshot_idx.kind = "raise"
          THEN ret' = snapshot_idx /\ alpha' = NoAlpha
          ELSE ret' = frame.ret /\ alpha' = frame.alpha
    /\ draws' = NoDraws
    /\ UNCHANGED <<timestamps, snapshots, sim_time, args, files, pool, locals>>

\* one frame of interpolate_frames: the call of _interpolate_fire_states
InterpolateFireStates ==
    /\ call = "none"
    /\ call' = "_interpolate_fire_states"
    /\ LET b == fire_bracket(timestamps, sim_time)
           first_snapshot == At(snapshots, 0)
       IN \E rnd \in RandomDraws(At(snapshots, b[1]).cols["state"],
                                 At(snapshots, b[2]).cols["state"]) :
           \E r \in {interpolate_fire_states(snapshots, timestamps, sim_time,
                                             width_of(first_snapshot),
                                             height_of(first_snapshot), rnd)} :
              /\ ret' = r.ret
              /\ alpha' = r.alpha
              /\ draws' = r.draws
    /\ UNCHANGED <<timestamps, snapshots, sim_time, args, files, pool, locals>>

Next == InterpolateSnapshot \/ InterpolateFireStates

Spec == Init /\ [][Next]_vars

----------------------------------------------------------------------------
N == Len(timestamps)

Found == call = "_find_snapshot_indices"

\* C1 (as claimed): for strictly increasing T, q <= T[0] gives (0, 0) and
\* q >= T[N-1] gives (N-1, N-1), the equalities included.
C1_ClampAtEnds ==
    (Found /\ N >= 1 /\ StrictlyIncreasing(timestamps)) =>
        /\ (sim_time <= At(timestamps, 0) => ret = Return(<<0, 0>>))
        /\ (sim_time >= At(timestamps, N - 1) => ret = Return(<<N - 1, N - 1>>))

\* C2 (as claimed): for strictly increasing T a query equal to T[k] gives (k, k).
C2_TieGivesSameIndex ==
    (Found /\ StrictlyIncreasing(timestamps)) =>
        \A k \in 0..(N - 1) :
            sim_time = At(timestamps, k) => ret = Return(<<k, k>>)

\* C3: for strictly increasing T with N >= 2 and T[0] < q < T[N-1] the result
\* is a pair (i, i+1) with T[i] <= q <= T[i+1]; when q is no timestamp, i is
\* the only index with T[i] < q < T[i+1].
C3_InteriorBracket ==
    (Found /\ N >= 2 /\ StrictlyIncreasing(timestamps)
        /\ At(timestamps, 0) < sim_time /\ sim_time < At(timestamps, N - 1)) =>
        /\ ret.kind = "return"
        /\ \E i \in 0..(N - 2) :
            /\ ret.value = <<i, i + 1>>
            /\ At(timestamps, i) <= sim_time /\ sim_time <= At(timestamps, i + 1)
            /\ (\A k \in 0..(N - 1) : At(timestamps, k) # sim_time) =>
                /\ At(timestamps, i) < sim_time /\ sim_time < At(timestamps, i + 1)
                /\ \A j \in 0..(N - 2) :
                    (At(timestamps, j) < sim_time /\ sim_time < At(timestamps, j + 1)) => j = i

\* C3 witness: three snapshots, a query strictly inside the second gap
C3_Witness ==
    /\ Found /\ N = 3 /\ StrictlyIncreasing(timestamps)
    /\ At(timestamps, 1) < sim_time /\ sim_time < At(timestamps, 2)
    /\ ret = Return(<<1, 2>>)

\* C4 (as claimed): an empty or not strictly increasing list of times makes
\* the resampler fail; it never returns a bracket for it.
C4_RejectsMalformedTimes ==
    (Found /\ (N = 0 \/ ~StrictlyIncreasing(timestamps))) => ret.kind = "raise"

\* C26 (as claimed): for strictly increasing T and every query time the
\* pair (idx_before, idx_after) of _interpolate_fire_states is the pair
\* _find_snapshot_indices returns.
C26_BracketSearchesAgree ==
    (Found /\ N >= 1 /\ StrictlyIncreasing(timestamps)) =>
        ret = Return(fire_bracket(timestamps, sim_time))

----------------------------------------------------------------------------
Exported == call = "_interpolate_snapshot"

FireInterpolated == call = "_interpolate_fire_states"

\* the cell states of snapshot k
StatesOf(k) == At(snapshots, k).cols["state"]

\* the cell states a call returned: a frame from the exporter, a series from
\* the frame interpolator
ReturnedStates == IF Exported THEN ret.value.cols["state"] ELSE ret.value

\* the pair of snapshots the call interpolated between
Bracket ==
    IF Exported THEN find_snapshot_indices(sim_time, timestamps).value
    ELSE fire_bracket(timestamps, sim_time)

\* C5 (as claimed): the blend factor either interpolator uses lies in [0, 1],
\* also for a query before the first or after the last timestamp.
C5_AlphaInUnitInterval ==
    ((Exported \/ FireInterpolated) /\ alpha.set) =>
        (0 <= alpha.num /\ alpha.num <= alpha.den)

\* C6 (as claimed): a target time equal to T[k] makes _interpolate_fire_states
\* return the states of S_k with no random transition applied.
C6_ExactTimeReturnsSnapshot ==
    FireInterpolated =>
        \A k \in 0..(N - 1) :
            sim_time = At(timestamps, k) =>
                ret = Return(StatesOf(k))

\* C9: a cell whose state is the same in both bracket snapshots has that
\* state in the synthetic frame, in both interpolators and for every alpha.
C9_UnchangedCellsKeepState ==
    ((Exported \/ FireInterpolated) /\ ret.kind = "return") =>
        \A c \in Cells :
            StatesOf(Bracket[1])[c] = StatesOf(Bracket[2])[c] =>
                ReturnedStates[c] = StatesOf(Bracket[1])[c]

\* C9 witness: a stochastic call with 0 < alpha < 1 in which one cell burnt
\* out while a cell that is a tree in both snapshots is still a tree
C9_Witness ==
    /\ FireInterpolated /\ draws.used
    /\ alpha.num > 0 /\ alpha.num < alpha.den
    /\ \E c, e \in Cells :
        /\ StatesOf(Bracket[1])[c] = "Tree" /\ StatesOf(Bracket[2])[c] = "Tree"
        /\ ret.value[c] = "Tree"
        /\ StatesOf(Bracket[1])[e] = "Burning" /\ ret.value[e] = "Burnt"

\* the smoothed Burning indicator of S_i at cell c, in 1/One
InfluenceAt(c) ==
    fire_influence(StatesOf(Bracket[1]), GridWidth, 1)[c[2]][c[1]]

Stochastic ==
    FireInterpolated /\ draws.used /\ alpha.num > 0 /\ alpha.num < alpha.den

\* C10 (as claimed): for 0 < alpha < 1 a Tree -> Burning cell ignites exactly
\* when its uniform draw is below influence(cell) * alpha.
C10_IgnitionIsInfluenceTimesAlpha ==
    Stochastic =>
        \A c \in DOMAIN draws.ignite :
            (ret.value[c] = "Burning") <=>
                (draws.ignite[c] * alpha.den < InfluenceAt(c) * alpha.num)

\* C10 (amended): for 0 < alpha < 1 a Tree -> Burning cell ignites exactly
\* when its uniform draw is below
\* clip(2 * influence(cell) * alpha + noise(cell) * alpha, 0, 1).
C10_IgnitionIsScaledNoisyInfluence ==
    Stochastic =>
        \A c \in DOMAIN draws.ignite :
            LET p == (2 * InfluenceAt(c) + draws.noise[c]) * alpha.num
                clipped == IF p < 0 THEN 0
                           ELSE IF p > One * alpha.den THEN One * alpha.den ELSE p
            IN (ret.value[c] = "Burning") <=> (draws.ignite[c] * alpha.den < clipped)

\* C10 witness: next to a burning cell, a tree ignited on a draw that is not
\* below influence * alpha, and another draw left such a tree standing
C10_Witness ==
    /\ Stochastic
    /\ \E c \in DOMAIN draws.ignite :
        /\ InfluenceAt(c) > 0
        /\ ret.value[c] = "Burning"
        /\ draws.ignite[c] * alpha.den >= InfluenceAt(c) * alpha.num

\* C13: _interpolate_fire_states draws from the global np.random and takes
\* no seed: after a call with 0 < alpha < 1 and a Tree -> Burning or a
\* Burning -> Burnt cell, there are draws with which a second call on the
\* same arguments returns cell states other than those the first returned.
C13_RepeatedCallCanDiffer ==
    (Stochastic /\ (DOMAIN draws.ignite # {} \/ DOMAIN draws.burnout # {})) =>
        \E rnd \in RandomDraws(StatesOf(Bracket[1]), StatesOf(Bracket[2])) :
            interpolate_fire_states(snapshots, timestamps, sim_time,
                                    GridWidth, 1, rnd).ret # ret

\* C13 witness: a call that left a Tree -> Burning cell a tree
C13_Witness ==
    /\ Stochastic
    /\ \E c \in DOMAIN draws.ignite : ret.value[c] = "Tree"

\* C24: _interpolate_states is a hard switch: in a frame interpolated between
\* S_i and S_j a cell whose state differs has S_i's state for alpha <= 0.5
\* and S_j's state for alpha > 0.5.
C24_StatesSwitchAtHalf ==
    (Exported /\ Bracket[1] # Bracket[2] /\ ret.kind = "return") =>
        \A c \in Cells :
            StatesOf(Bracket[1])[c] # StatesOf(Bracket[2])[c] =>
                /\ 2 * alpha.num <= alpha.den => ReturnedStates[c] = StatesOf(Bracket[1])[c]
                /\ 2 * alpha.num > alpha.den => ReturnedStates[c] = StatesOf(Bracket[2])[c]

\* C24 witness: at alpha = 0.5 exactly a changed cell still has S_i's state
C24_Witness ==
    /\ Exported /\ Bracket[1] # Bracket[2] /\ ret.kind = "return"
    /\ alpha.set /\ 2 * alpha.num = alpha.den
    /\ \E c \in Cells :
        /\ StatesOf(Bracket[1])[c] # StatesOf(Bracket[2])[c]
        /\ ReturnedStates[c] = StatesOf(Bracket[1])[c]

\* C25: between two different snapshots _interpolate_fire_states returns for
\* each cell its state in S_i or its state in S_j; a cell changes only from
\* Tree to Burning or from Burning to Burnt, as S_i and S_j have it, so a
\* cell with any other change keeps S_i's state and no cell takes two steps.
C25_OnlySingleFireSteps ==
    (FireInterpolated /\ Bracket[1] # Bracket[2] /\ ret.kind = "return") =>
        \A c \in Cells :
            LET before == StatesOf(Bracket[1])[c]
                after == StatesOf(Bracket[2])[c]
            IN \/ ret.value[c] = before
               \/ before = "Tree" /\ after = "Burning" /\ ret.value[c] = "Burning"
               \/ before = "Burning" /\ after = "Burnt" /\ ret.value[c] = "Burnt"

\* C25 witness: a stochastic call that ignited one tree and kept a tree that
\* is burnt in S_j
C25_Witness ==
    /\ FireInterpolated /\ draws.used
    /\ \E c, e \in Cells :
        /\ StatesOf(Bracket[1])[c] = "Tree" /\ StatesOf(Bracket[2])[c] = "Burnt"
        /\ ret.value[c] = "Tree"
        /\ StatesOf(Bracket[1])[e] = "Tree" /\ ret.value[e] = "Burning"

----------------------------------------------------------------------------
(* The coverage specification: the exporter on snapshots whose rows and    *)
(* columns differ.  A frame holds any non-empty set of cells and any set   *)
(* of columns; its cells are either all trees with field value 10 or all   *)
(* burning with field value 30.                                            *)

Columns == {"state"} \cup continuous_cols

Phases == {[state |-> "Tree", value |-> 10], [state |-> "Burning", value |-> 30]}

RaggedFrames ==
    {[index |-> idx,
      cols |-> [col \in cs |->
                   [c \in idx |-> IF col = "state" THEN ph.state ELSE Num(ph.value)]]] :
        idx \in (SUBSET Cells) \ {{}}, cs \in SUBSET Columns, ph \in Phases}

InitCoverage ==
    /\ timestamps \in IncreasingTimes(MaxSnapshots, MaxSimTime)
    /\ snapshots \in [1..Len(timestamps) -> RaggedFrames]
    /\ sim_time \in 0..(MaxSimTime + 1)
    /\ call = "none"
    /\ ret = NoReturn
    /\ alpha = NoAlpha
    /\ draws = NoDraws
    /\ args = NoArgs
    /\ files = NoFiles
    /\ pool = NoPool
    /\ locals = NoLocals

NextCoverage == InterpolateSnapshot

SpecCoverage == InitCoverage /\ [][NextCoverage]_vars

\* the call interpolated between two different snapshots
Interpolated == Exported /\ Bracket[1] # Bracket[2]

\* C7 (as claimed): when the bracket snapshots hold different cells the
\* interpolation completes and the frame holds exactly the cells of both.
C7_FrameHoldsCommonCells ==
    Interpolated =>
        /\ ret.kind = "return"
        /\ ret.value.index =
               At(snapshots, Bracket[1]).index \cap At(snapshots, Bracket[2]).index

\* C8 (as claimed): a continuous column is in the synthetic frame only if it
\* is in both bracket snapshots.
C8_FieldsNeedBothSnapshots ==
    (Interpolated /\ ret.kind = "return") =>
        \A col \in continuous_cols :
            col \in DOMAIN ret.value.cols =>
                /\ col \in DOMAIN At(snapshots, Bracket[1]).cols
                /\ col \in DOMAIN At(snapshots, Bracket[2]).cols

----------------------------------------------------------------------------
(* The blend specification: the frame loop of export_for_video on complete *)
(* grids that carry continuous fields.  Every frame of the loop is a call  *)
(* of _find_snapshot_indices and _interpolate_snapshot at a later time.    *)

FieldValues == {10, 30}

BlendColumns == {{"state", "temperature"}, {"state", "temperature", "moisture"}}

\* grids of trees whose continuous columns hold one field value per cell
BlendFrames ==
    {[index |-> Cells,
      cols |-> [col \in cs |->
                   [c \in Cells |-> IF col = "state" THEN "Tree" ELSE Num(f[c])]]] :
        cs \in BlendColumns, f \in [Cells -> FieldValues]}

InitBlend ==
    /\ timestamps \in IncreasingTimes(MaxSnapshots, MaxSimTime)
    /\ snapshots \in [1..Len(timestamps) -> BlendFrames]
    /\ sim_time \in 0..(MaxSimTime + 1)
    /\ call = "none"
    /\ ret = NoReturn
    /\ alpha = NoAlpha
    /\ draws = NoDraws
    /\ args = NoArgs
    /\ files = NoFiles
    /\ pool = NoPool
    /\ locals = NoLocals

\* the next frame of export_for_video: the first one at sim_time, every
\* other one at a later time
ExportFrame ==
    \E q \in sim_time..(MaxSimTime + 1) :
        /\ call = "none" \/ q > sim_time
        /\ sim_time' = q
        /\ call' = "_interpolate_snapshot"
        /\ LET snapshot_idx == find_snapshot_indices(q, timestamps)
               frame == interpolate_snapshot(q, timestamps, snapshots, snapshot_idx.value)
           IN IF snapshot_idx.kind = "raise"
              THEN ret' = snapshot_idx /\ alpha' = NoAlpha
              ELSE ret' = frame.ret /\ alpha' = frame.alpha
        /\ draws' = NoDraws
        /\ UNCHANGED <<timestamps, snapshots, args, files, pool, locals>>

NextBlend == ExportFrame

SpecBlend == InitBlend /\ [][NextBlend]_vars

\* comparison of two continuous values as numbers
Same(v, w) == v # NaN /\ w # NaN /\ v.n * w.d = w.n * v.d

Less(v, w) == v # NaN /\ w # NaN /\ v.n * w.d < w.n * v.d

\* the continuous columns the call blended
BlendedColumns ==
    (continuous_cols \cap DOMAIN At(snapshots, Bracket[1]).cols)
        \cap DOMAIN At(snapshots, Bracket[2]).cols

\* the value of column col at cell c in snapshot k, and in the returned frame
FieldOf(k, col, c) == At(snapshots, k).cols[col][c]

ReturnedField(col, c) == ret.value.cols[col][c]

\* C11: a frame interpolated between two different snapshots over the same
\* cells holds, in every cell of every continuous column both snapshots
\* have, the value of S_i when alpha is 0 and the value of S_j when alpha is 1.
C11_EndpointsReproduceSnapshots ==
    (Interpolated /\ ret.kind = "return") =>
        \A col \in BlendedColumns, c \in Cells :
            /\ alpha.num = 0 => Same(ReturnedField(col, c), FieldOf(Bracket[1], col, c))
            /\ alpha.num = alpha.den =>
                   Same(ReturnedField(col, c), FieldOf(Bracket[2], col, c))

\* C11 witness: a frame at alpha = 1 between snapshots that differ in a cell
C11_Witness ==
    /\ Interpolated /\ ret.kind = "return"
    /\ alpha.num = alpha.den
    /\ \E c \in Cells :
        /\ ~Same(FieldOf(Bracket[1], "temperature", c), FieldOf(Bracket[2], "temperature", c))
        /\ Same(ReturnedField("temperature", c), FieldOf(Bracket[2], "temperature", c))

----------------------------------------------------------------------------
(* CameraPathController.  Times, durations and channel values are exact    *)
(* rationals [n, d] in lowest terms with d > 0; NaN stands for a float     *)
(* that is not finite (nan or inf).  A keyframe and a pose are records by  *)
(* key, a path is a sequence of poses.                                     *)

\* Bounds of the camera specification
MaxKeyframes == 3
MaxSegments == 2
MaxPathLen == 2

RECURSIVE Gcd(_, _)
Gcd(a, b) == IF b = 0 THEN a ELSE Gcd(b, a % b)

\* the float n / d
Rat(n, d) ==
    IF d = 0 THEN NaN
    ELSE LET g == Gcd(Abs(n), Abs(d))
             sign == IF d < 0 THEN -1 ELSE 1
         IN [n |-> sign * (n \div g), d |-> sign * (d \div g)]

IsNum(v) == DOMAIN v = {"n", "d"}

Plus(v, w) ==
    IF ~IsNum(v) \/ ~IsNum(w) THEN NaN ELSE Rat(v.n * w.d + w.n * v.d, v.d * w.d)

Minus(v, w) ==
    IF ~IsNum(v) \/ ~IsNum(w) THEN NaN ELSE Rat(v.n * w.d - w.n * v.d, v.d * w.d)

Times(v, w) ==
    IF ~IsNum(v) \/ ~IsNum(w) THEN NaN ELSE Rat(v.n * w.n, v.d * w.d)

\* numpy division: a zero divisor gives nan or inf
Over(v, w) ==
    IF ~IsNum(v) \/ ~IsNum(w) THEN NaN ELSE Rat(v.n * w.d, v.d * w.n)

\* int(v): truncation towards zero
Trunc(v) == IF v.n >= 0 THEN v.n \div v.d ELSE -((-v.n) \div v.d)

Channels == {"azimuth", "elevation", "distance"}

Smoothings == {"linear", "quadratic", "cubic"}

\* the spline order interp1d derives from kind
order == [kind \in Smoothings |->
    CASE kind = "linear" -> 1 [] kind = "quadratic" -> 2 [] kind = "cubic" -> 3]

\* interp1d sorts its points by x (assume_sorted=False, a stable argsort)
RECURSIVE insert_by_time(_, _)
insert_by_time(kp, sorted) ==
    IF sorted = <<>> \/ ~Less(Head(sorted).time, kp.time)
    THEN <<kp>> \o sorted
    ELSE <<Head(sorted)>> \o insert_by_time(kp, Tail(sorted))

RECURSIVE sort_by_time(_)
sort_by_time(key_points) ==
    IF key_points = <<>> THEN <<>>
    ELSE insert_by_time(Head(key_points), sort_by_time(Tail(key_points)))

\* interp1d(times, values, kind=smoothing, fill_value='extrapolate') raises
\* ValueError for fewer than order + 1 points, and a spline (order > 1) for
\* points that share an x
interp1d_raises(key_points, kind) ==
    \/ Len(key_points) < order[kind] + 1
    \/ /\ order[kind] > 1
       /\ \E i, j \in 1..Len(key_points) : i # j /\ key_points[i].time = key_points[j].time

\* variant: the interpolant holds the value of the interval's lower point
interp1d_previous(key_points, channel, t) ==
    LET x == sort_by_time(key_points)
        below == Cardinality({i \in 1..Len(x) : Less(x[i].time, t)})
        idx == clip(below, 1, Len(x) - 1)
    IN At(x, idx - 1)[channel]

\* the linear interpolant at t: searchsorted, clipped to the intervals of
\* the points, the line through the two ends (extrapolating outside them)
interp1d_linear(key_points, channel, t) ==
    LET x == sort_by_time(key_points)
        below == Cardinality({i \in 1..Len(x) : Less(x[i].time, t)})
        idx == clip(below, 1, Len(x) - 1)
        lo == At(x, idx - 1)
        hi == At(x, idx)
        slope == Over(Minus(hi[channel], lo[channel]), Minus(hi.time, lo.time))
    IN Plus(Times(slope, Minus(t, lo.time)), lo[channel])

\* the quadratic or cubic spline at t: the value of a point at its time, the
\* spline through all the points elsewhere (left symbolic)
interp1d_spline(key_points, channel, kind, t) ==
    LET x == sort_by_time(key_points)
    IN IF \E i \in 1..Len(x) : x[i].time = t
       THEN x[CHOOSE i \in 1..Len(x) : x[i].time = t][channel]
       ELSE [spline |-> kind,
             x |-> [i \in 1..Len(x) |-> x[i].time],
             y |-> [i \in 1..Len(x) |-> x[i][channel]],
             at |-> t]

interp1d(key_points, channel, kind, t) ==
    IF kind = "linear" THEN interp1d_linear(key_points, channel, t)
    ELSE interp1d_spline(key_points, channel, kind, t)

(* CameraPathController.generate_camera_path *)
generate_camera_path(key_points, duration, fps, smoothing) ==
    LET total_frames == Trunc(Times(duration, Num(fps)))
    IN IF interp1d_raises(key_points, smoothing) THEN Raise("ValueError")
       ELSE Return([i \in 1..total_frames |->
                LET frame == i - 1
                    t == Rat(frame, fps)
                IN [frame |-> frame,
                    time |-> t,
                    azimuth |-> interp1d(key_points, "azimuth", smoothing, t),
                    elevation |-> interp1d(key_points, "elevation", smoothing, t),
                    distance |-> interp1d(key_points, "distance", smoothing, t)]])

\* a keyframe at duration * num / den
key_point(duration, num, den, azimuth, elevation, distance) ==
    [time |-> Times(duration, Rat(num, den)), azimuth |-> Num(azimuth),
     elevation |-> Num(elevation), distance |-> Num(distance)]

generate_orbit_path(duration, fps) ==
    generate_camera_path(<<key_point(duration, 0, 1, -45, 30, 10),
                           key_point(duration, 1, 4, 45, 35, 9),
                           key_point(duration, 1, 2, 135, 40, 8),
                           key_point(duration, 3, 4, 225, 35, 9),
                           key_point(duration, 1, 1, 315, 30, 10)>>,
                         duration, fps, "cubic")

generate_flyover_path(duration, fps) ==
    generate_camera_path(<<key_point(duration, 0, 1, -45, 60, 15),
                           key_point(duration, 3, 10, 0, 80, 12),
                           key_point(duration, 7, 10, 90, 70, 10),
                           key_point(duration, 1, 1, 135, 45, 12)>>,
                         duration, fps, "cubic")

generate_fire_tracking_path(duration, fps) ==
    generate_camera_path(<<key_point(duration, 0, 1, -30, 25, 8),
                           key_point(duration, 3, 10, 0, 30, 6),
                           key_point(duration, 6, 10, 30, 35, 5),
                           key_point(duration, 1, 1, 60, 40, 7)>>,
                         duration, fps, "cubic")

generate_reveal_path(duration, fps) ==
    generate_camera_path(<<key_point(duration, 0, 1, 0, 10, 3),
                           key_point(duration, 2, 10, -15, 20, 5),
                           key_point(duration, 5, 10, -30, 35, 8),
                           key_point(duration, 8, 10, -45, 45, 10),
                           key_point(duration, 1, 1, -45, 50, 12)>>,
                         duration, fps, "quadratic")

generate_zoom_path(duration, fps) ==
    generate_camera_path(<<key_point(duration, 0, 1, -45, 30, 12),
                           key_point(duration, 1, 2, -45, 30, 5),
                           key_point(duration, 1, 1, -45, 30, 12)>>,
                         duration, fps, "cubic")

generate_pan_path(duration, fps) ==
    generate_camera_path(<<key_point(duration, 0, 1, -90, 30, 10),
                           key_point(duration, 1, 2, 0, 30, 10),
                           key_point(duration, 1, 1, 90, 30, 10)>>,
                         duration, fps, "linear")

\* the keys of self.paths
PathNames == {"orbit", "flyover", "fire_follow", "dramatic_reveal", "zoom_in", "pan"}

\* self.paths[path_name](path_duration, fps)
paths_call(path_name, duration, fps) ==
    CASE path_name = "orbit" -> generate_orbit_path(duration, fps)
      [] path_name = "flyover" -> generate_flyover_path(duration, fps)
      [] path_name = "fire_follow" -> generate_fire_tracking_path(duration, fps)
      [] path_name = "dramatic_reveal" -> generate_reveal_path(duration, fps)
      [] path_name = "zoom_in" -> generate_zoom_path(duration, fps)
      [] path_name = "pan" -> generate_pan_path(duration, fps)

\* the poses of one segment, re-based to current_time
adjusted(segment, current_time, fps) ==
    [i \in 1..Len(segment) |->
        LET time == Plus(segment[i].time, current_time)
        IN [segment[i] EXCEPT !.time = time,
                              !.frame = Trunc(Times(time, Num(fps)))]]

\* the loop of combine_paths from segment k on
RECURSIVE combine_loop(_, _, _, _, _)
combine_loop(paths, k, current_time, combined_path, fps) ==
    IF k > Len(paths) THEN Return(combined_path)
    ELSE LET path_name == paths[k][1]
             path_duration == paths[k][2]
         IN IF path_name \notin PathNames
            THEN combine_loop(paths, k + 1, current_time, combined_path, fps)
            ELSE LET segment == paths_call(path_name, path_duration, fps)
                 IN IF segment.kind = "raise" THEN segment
                    ELSE combine_loop(paths, k + 1, Plus(current_time, path_duration),
                                      combined_path \o adjusted(segment.value, current_time, fps),
                                      fps)

(* CameraPathController.combine_paths; total_duration is not read *)
combine_paths(paths, total_duration, fps) ==
    combine_loop(paths, 1, Num(0), <<>>, fps)

\* pos['frame'] = i, pos['time'] = i / fps for the poses of a list that sit
\* at the indices first, first + 1, ... of combined
renumbered(path, first, fps) ==
    [i \in 1..Len(path) |->
        [path[i] EXCEPT !.frame = first + i - 1, !.time = Rat(first + i - 1, fps)]]

(* CameraPathController.smooth_transition; result is [ret, path1, path2]:  *)
(* what the call returns or raises and the caller's two lists after it.    *)
(* combined holds the caller's own pose dicts, so the renumbering loop     *)
(* writes to the poses of path1[:-1] and path2[1:] as well.                *)
smooth_transition(path1, path2, transition_duration, fps) ==
    IF path1 = <<>> \/ path2 = <<>>
    THEN [ret |-> Raise("IndexError"), path1 |-> path1, path2 |-> path2]
    ELSE
     LET end_pos1 == path1[Len(path1)]
         start_pos2 == path2[1]
         transition_keys ==
             <<[time |-> Num(0), azimuth |-> end_pos1.azimuth,
                elevation |-> end_pos1.elevation, distance |-> end_pos1.distance],
               [time |-> transition_duration, azimuth |-> start_pos2.azimuth,
                elevation |-> start_pos2.elevation, distance |-> start_pos2.distance]>>
         transition == generate_camera_path(transition_keys, transition_duration, fps, "cubic")
     IN IF transition.kind = "raise"
        THEN [ret |-> transition, path1 |-> path1, path2 |-> path2]
        ELSE LET head == renumbered(SubSeq(path1, 1, Len(path1) - 1), 0, fps)
                 bridge == renumbered(transition.value, Len(head), fps)
                 tail == renumbered(Tail(path2), Len(head) + Len(bridge), fps)
             IN [ret |-> Return(head \o bridge \o tail),
                 path1 |-> head \o <<end_pos1>>,
                 path2 |-> <<start_pos2>> \o tail]

----------------------------------------------------------------------------
(* The camera specification: one call of generate_camera_path,             *)
(* combine_paths or smooth_transition on sampled arguments.                *)

\* two camera placements: far and level, close and steep
Placements ==
    {[azimuth |-> Num(-45), elevation |-> Num(30), distance |-> Num(10)],
     [azimuth |-> Num(315), elevation |-> Num(80), distance |-> Num(1)]}

KeyTimes == {0, 2, 5}

Durations == {Num(0), Rat(3, 2), Num(5)}

FrameRates == {1, 2}

SegmentDurations == {Num(1), Rat(3, 2)}

TransitionDurations == {Rat(1, 2), Num(2)}

KeyPoints ==
    {[time |-> Num(t), azimuth |-> v.azimuth, elevation |-> v.elevation,
      distance |-> v.distance] : t \in KeyTimes, v \in Placements}

\* the paths of at most MaxPathLen poses, numbered as generate_camera_path
\* numbers them
CallerPaths(fps) ==
    {[i \in 1..Len(vs) |->
         [frame |-> i - 1, time |-> Rat(i - 1, fps), azimuth |-> vs[i].azimuth,
          elevation |-> vs[i].elevation, distance |-> vs[i].distance]] :
        vs \in SeqsUpTo(Placements, MaxPathLen)}

RECURSIVE total_of(_)
total_of(paths) ==
    IF paths = <<>> THEN Num(0) ELSE Plus(Head(paths)[2], total_of(Tail(paths)))

GenerateArgs ==
    {[method |-> "generate_camera_path", key_points |-> kps, duration |-> d,
      fps |-> f, smoothing |-> sm] :
        kps \in SeqsUpTo(KeyPoints, MaxKeyframes), d \in Durations,
        f \in FrameRates, sm \in Smoothings}

CombineArgs ==
    {[method |-> "combine_paths", paths |-> ps, total_duration |-> total_of(ps),
      fps |-> f] :
        ps \in SeqsUpTo((PathNames \cup {"spiral"}) \X SegmentDurations, MaxSegments),
        f \in FrameRates}

TransitionArgs ==
    UNION {{[method |-> "smooth_transition", path1 |-> p1, path2 |-> p2,
             transition_duration |-> td, fps |-> f] :
               p1 \in CallerPaths(f), p2 \in CallerPaths(f), td \in TransitionDurations} :
           f \in FrameRates}

InitCamera ==
    /\ args \in GenerateArgs \cup CombineArgs \cup TransitionArgs
    /\ files = NoFiles
    /\ pool = NoPool
    /\ locals = NoLocals
    /\ timestamps = <<>>
    /\ snapshots = <<>>
    /\ sim_time = 0
    /\ call = "none"
    /\ ret = NoReturn
    /\ alpha = NoAlpha
    /\ draws = NoDraws

GenerateCameraPath ==
    /\ call = "none"
    /\ args.method = "generate_camera_path"
    /\ call' = "generate_camera_path"
    /\ ret' = generate_camera_path(args.key_points, args.duration, args.fps, args.smoothing)
    /\ UNCHANGED <<timestamps, snapshots, sim_time, alpha, draws, args, files, pool, locals>>

CombinePaths ==
    /\ call = "none"
    /\ args.method = "combine_paths"
    /\ call' = "combine_paths"
    /\ ret' = combine_paths(args.paths, args.total_duration, args.fps)
    /\ UNCHANGED <<timestamps, snapshots, sim_time, alpha, draws, args, files, pool, locals>>

\* the call returns or raises; the caller's lists are what the call left
SmoothTransition ==
    /\ call = "none"
    /\ args.method = "smooth_transition"
    /\ call' = "smooth_transition"
    /\ \E r \in {smooth_transition(args.path1, args.path2,
                                   args.transition_duration, args.fps)} :
        /\ ret' = r.ret
        /\ args' = [args EXCEPT !.path1 = r.path1, !.path2 = r.path2]
    /\ UNCHANGED <<timestamps, snapshots, sim_time, alpha, draws, files, pool, locals>>

NextCamera == GenerateCameraPath \/ CombinePaths \/ SmoothTransition

SpecCamera == InitCamera /\ [][NextCamera]_vars

----------------------------------------------------------------------------
Generated == call = "generate_camera_path"

Combined == call = "combine_paths"

Transitioned == call = "smooth_transition"

\* at least two keyframes, their times strictly increasing
ValidKeyPoints(key_points) ==
    /\ Len(key_points) >= 2
    /\ \A i \in 1..(Len(key_points) - 1) : Less(key_points[i].time, key_points[i + 1].time)

\* floor(duration * fps)
FrameCount(duration, fps) == Trunc(Times(duration, Num(fps)))

\* pose i of the path has frame i and time i / fps
NumberedFromZero(path, fps) ==
    \A i \in 1..Len(path) : path[i].frame = i - 1 /\ path[i].time = Rat(i - 1, fps)

\* C14 (as claimed): for at least two keyframes with strictly increasing
\* times, every scheme, duration and fps, generate_camera_path returns
\* floor(duration * fps) poses, pose f with frame f and time f / fps.
C14_OnePosePerFrame ==
    (Generated /\ ValidKeyPoints(args.key_points)) =>
        /\ ret.kind = "return"
        /\ Len(ret.value) = FrameCount(args.duration, args.fps)
        /\ NumberedFromZero(ret.value, args.fps)

\* azimuth -45 at t = 0 and 315 at t = 5, 5 seconds at 1 frame per second
OrbitExample ==
    /\ Len(args.key_points) = 2
    /\ args.key_points[1].time = Num(0) /\ args.key_points[1].azimuth = Num(-45)
    /\ args.key_points[2].time = Num(5) /\ args.key_points[2].azimuth = Num(315)
    /\ args.fps = 1 /\ args.duration = Num(5)

\* C15: with the linear scheme and two keyframes (t0, v0), (t1, v1) every
\* channel of the pose at frame f is v0 + (v1 - v0) * (f / fps - t0) / (t1 - t0);
\* the azimuths of the example are -45, 27, 99, 171, 243.
C15_LinearTwoKeyframes ==
    (Generated /\ args.smoothing = "linear" /\ Len(args.key_points) = 2
        /\ Less(args.key_points[1].time, args.key_points[2].time)) =>
        /\ ret.kind = "return"
        /\ \A i \in 1..Len(ret.value), channel \in Channels :
            LET t == Rat(i - 1, args.fps)
                t0 == args.key_points[1].time
                t1 == args.key_points[2].time
                v0 == args.key_points[1][channel]
                v1 == args.key_points[2][channel]
            IN ret.value[i][channel] =
                   Plus(v0, Over(Times(Minus(v1, v0), Minus(t, t0)), Minus(t1, t0)))
        /\ OrbitExample =>
               [i \in 1..Len(ret.value) |-> ret.value[i].azimuth] =
                   <<Num(-45), Num(27), Num(99), Num(171), Num(243)>>

\* C15 witness: the example, its third pose at azimuth 99
C15_Witness ==
    /\ Generated /\ args.smoothing = "linear" /\ OrbitExample
    /\ ret.kind = "return" /\ Len(ret.value) = 5
    /\ ret.value[3].azimuth = Num(99)

\* C16 (as claimed): fewer than two keyframes, or times that are not
\* strictly increasing, make generate_camera_path fail; it returns no path.
C16_RejectsInvalidKeyframes ==
    (Generated /\ ~ValidKeyPoints(args.key_points)) => ret.kind = "raise"

\* C17 (as claimed): every pose generate_camera_path returns has a distance
\* above 0 and an elevation in [-90, 90], extrapolated poses included.
C17_PosesStayInRange ==
    (Generated /\ ValidKeyPoints(args.key_points) /\ ret.kind = "return") =>
        \A i \in 1..Len(ret.value) :
            /\ IsNum(ret.value[i].distance) => Less(Num(0), ret.value[i].distance)
            /\ IsNum(ret.value[i].elevation) =>
                /\ ~Less(ret.value[i].elevation, Num(-90))
                /\ ~Less(Num(90), ret.value[i].elevation)

\* C18 (as claimed): for segments of presets whose durations sum to
\* total_duration, combine_paths returns floor(total_duration * fps) poses
\* with the frame indices 0, 1, 2, ... in order.
C18_CombinedFramesContiguous ==
    (Combined /\ \A k \in 1..Len(args.paths) : args.paths[k][1] \in PathNames) =>
        /\ ret.kind = "return"
        /\ Len(ret.value) = FrameCount(args.total_duration, args.fps)
        /\ \A i \in 1..Len(ret.value) : ret.value[i].frame = i - 1

\* C19 (as claimed): for non-empty paths and a positive duration,
\* smooth_transition returns path1[:-1] + bridge + path2[1:], that is
\* (len(path1) - 1) + floor(transition_duration * fps) + (len(path2) - 1)
\* poses, pose i with frame i and time i / fps.
C19_TransitionSplices ==
    (Transitioned /\ args.path1 # <<>> /\ args.path2 # <<>>
        /\ Less(Num(0), args.transition_duration)) =>
        /\ ret.kind = "return"
        /\ Len(ret.value) = (Len(args.path1) - 1)
                              + FrameCount(args.transition_duration, args.fps)
                              + (Len(args.path2) - 1)
        /\ NumberedFromZero(ret.value, args.fps)

----------------------------------------------------------------------------
(***************************************************************************)
(* The parallel frame renderers: generate_frames.py and                    *)
(* terrain_3d_parallel.py.  A file is [dir, name, data]; a name is         *)
(* [prefix, digits, ext], standing for "<prefix>_<digits>.<ext>", digits   *)
(* being the sequence of decimal digits as written in the name (and for    *)
(* "<prefix>.<ext>" when there are no digits).  The                        *)
(* parent step lists and parses the frame files and hands chunks of tasks  *)
(* to the pool; the workers take chunks and run their tasks one by one;    *)
(* the parent resumes when every chunk has reported.                       *)
(***************************************************************************)
MaxFrames == 5
MaxProcesses == 2

RECURSIVE str(_)
str(n) == IF n < 10 THEN <<n>> ELSE Append(str(n \div 10), n % 10)

RECURSIVE int(_)
int(digits) ==
    IF Len(digits) = 0 THEN 0
    ELSE 10 * int(SubSeq(digits, 1, Len(digits) - 1)) + digits[Len(digits)]

format_06d(n) ==
    LET d == str(n)
    IN  IF Len(d) >= 6 THEN d ELSE [i \in 1..(6 - Len(d)) |-> 0] \o d

(* A Python None, and a value where None is possible *)
None == <<>>

Some(v) == <<v>>

Name(prefix, digits, ext) == [prefix |-> prefix, digits |-> digits, ext |-> ext]

File(dir, name, data) == [dir |-> dir, name |-> name, data |-> data]

exists(fs, dir, name) == \E f \in fs : f.dir = dir /\ f.name = name

read_csv(fs, dir, name) ==
    LET f == CHOOSE g \in fs : g.dir = dir /\ g.name = name
    IN  IF f.data = "empty" THEN Raise("EmptyDataError") ELSE Return(f.data)

savefig(fs, dir, name) ==
    {f \in fs : ~(f.dir = dir /\ f.name = name)} \cup {File(dir, name, "png")}

(* input_path.glob("frames/frame_*.csv"), sorted by file name: the names  *)
(* compare character by character, and "." sorts before every digit       *)
glob(fs) ==
    {f.name : f \in {g \in fs : g.dir = "frames" /\ g.name.prefix = "frame"
                                  /\ g.name.ext = "csv"}}

name_key(name) ==
    [i \in 1..(Len(name.digits) + 1) |->
        IF i <= Len(name.digits) THEN name.digits[i] + 1 ELSE 0]

name_less(a, b) ==
    \E i \in 1..Len(name_key(a)) :
        /\ i <= Len(name_key(b))
        /\ name_key(a)[i] < name_key(b)[i]
        /\ \A j \in 1..(i - 1) : name_key(a)[j] = name_key(b)[j]

RECURSIVE sorted(_)
sorted(names) ==
    IF names = {} THEN <<>>
    ELSE LET first == CHOOSE a \in names : \A b \in names \ {a} : name_less(a, b)
         IN  <<first>> \o sorted(names \ {first})

frame_numbers(fs) ==
    LET frame_files == sorted(glob(fs))
    IN  [k \in 1..Len(frame_files) |-> int(frame_files[k].digits)]

(* One task.  The result is what the task returned or raised, the files    *)
(* after it, and the names it wrote.                                       *)
generate_frame_wrapper(fs, frame_num) ==
    LET frame_path  == Name("frame", format_06d(frame_num), "csv")
        output_path == Name("frame", format_06d(frame_num), "png")
    IN  IF ~exists(fs, "frames", frame_path)
        THEN [ret |-> Return(None), files |-> fs, wrote |-> {}]
        ELSE IF read_csv(fs, "frames", frame_path).kind = "raise"
        THEN [ret |-> read_csv(fs, "frames", frame_path), files |-> fs, wrote |-> {}]
        ELSE [ret |-> Return(None),
              files |-> savefig(fs, "output", output_path),
              wrote |-> {output_path}]

render_frame(fs, frame_num) ==
    LET frame_path  == Name("frame", format_06d(frame_num), "csv")
        output_path == Name("3d_frame", format_06d(frame_num), "png")
    IN  IF ~exists(fs, "frames", frame_path)
        THEN [ret |-> Return(None), files |-> fs, wrote |-> {}]
        ELSE IF read_csv(fs, "frames", frame_path).kind = "raise"
        THEN [ret |-> read_csv(fs, "frames", frame_path), files |-> fs, wrote |-> {}]
        ELSE [ret |-> Return(None),
              files |-> savefig(fs, "output", output_path),
              wrote |-> {output_path}]

elevation_path == Name("elevation", <<>>, "csv")

render_frame_wrapper(fs, frame_num) ==
    IF read_csv(fs, "metadata", elevation_path).kind = "raise"
    THEN [ret |-> read_csv(fs, "metadata", elevation_path), files |-> fs, wrote |-> {}]
    ELSE render_frame(fs, frame_num)

run_task(func, fs, frame_num) ==
    IF func = "generate_frame_wrapper" THEN generate_frame_wrapper(fs, frame_num)
    ELSE render_frame_wrapper(fs, frame_num)

(* multiprocessing.Pool.map: the chunk size and the chunks of the tasks *)
map_chunksize(len, processes) ==
    IF len = 0 THEN 0
    ELSE (len \div (processes * 4)) + (IF len % (processes * 4) # 0 THEN 1 ELSE 0)

number_of_chunks(len, chunksize) ==
    IF len = 0 THEN 0 ELSE (len + chunksize - 1) \div chunksize

chunk_first(k, chunksize) == (k - 1) * chunksize + 1

chunk_last(k, chunksize, len) ==
    IF k * chunksize < len THEN k * chunksize ELSE len

Idle == [chunk |-> 0, task |-> 0]

pool_map(func, tasks, processes, quiet) ==
    LET chunksize == map_chunksize(Len(tasks), processes)
    IN  [state     |-> "running",
         func      |-> func,
         tasks     |-> tasks,
         chunksize |-> chunksize,
         queue     |-> 1,
         left      |-> number_of_chunks(Len(tasks), chunksize),
         workers   |-> [w \in 1..processes |-> Idle],
         error     |-> "none",
         failed    |-> {},
         wrote     |-> {},
         printed   |-> quiet]

processes_of(a, limit) ==
    IF a.num_processes # None THEN a.num_processes[1]
    ELSE IF a.cpu_count < limit THEN a.cpu_count ELSE limit

truncated(numbers, num_frames) ==
    IF num_frames = None \/ num_frames = Some(0) THEN numbers
    ELSE SubSeq(numbers, 1, IF num_frames[1] < Len(numbers) THEN num_frames[1]
                            ELSE Len(numbers))

(* The directories and arguments the specification starts from: the       *)
(* exported frames 0 .. k-1, possibly one more frame file whose number is *)
(* written without padding, possibly one empty file, and the elevation    *)
(* file or not.                                                           *)
ExportedFrames(k) ==
    {File("frames", Name("frame", format_06d(n), "csv"), "rows") : n \in 0..(k - 1)}

StrayFrames ==
    {{}} \cup {{File("frames", Name("frame", str(n), "csv"), "rows")} : n \in 0..1}

Emptied(fs) ==
    {fs} \cup {(fs \ {f}) \cup {File(f.dir, f.name, "empty")} : f \in fs}

Elevations == {{}, {File("metadata", elevation_path, "rows")}}

SourceDirectories ==
    UNION {UNION {UNION {{fs \cup e : fs \in Emptied(ExportedFrames(k) \cup s)} :
                         e \in Elevations} :
                  s \in StrayFrames} :
           k \in 0..MaxFrames}

ProcessArgs ==
    {[num_processes |-> None, cpu_count |-> c] : c \in 1..MaxProcesses}
        \cup {[num_processes |-> Some(p), cpu_count |-> MaxProcesses] : p \in 1..MaxProcesses}

PoolArgs ==
    {[method |-> "generate_all_frames", num_frames |-> None,
      num_processes |-> p.num_processes, cpu_count |-> p.cpu_count] : p \in ProcessArgs}
        \cup {[method |-> "generate_3d_frames_parallel", num_frames |-> n,
               num_processes |-> p.num_processes, cpu_count |-> p.cpu_count] :
                  n \in {None, Some(0), Some(2)}, p \in ProcessArgs}

InitPool ==
    /\ args \in PoolArgs
    /\ files \in SourceDirectories
    /\ pool = NoPool
    /\ locals = NoLocals
    /\ timestamps = <<>>
    /\ snapshots = <<>>
    /\ sim_time = 0
    /\ call = "none"
    /\ ret = NoReturn
    /\ alpha = NoAlpha
    /\ draws = NoDraws

(* generate_all_frames up to the point where pool.map blocks *)
GenerateAllFrames ==
    /\ call = "none"
    /\ args.method = "generate_all_frames"
    /\ call' = "generate_all_frames"
    /\ pool' = pool_map("generate_frame_wrapper", frame_numbers(files),
                        processes_of(args, args.cpu_count), "Found")
    /\ UNCHANGED <<timestamps, snapshots, sim_time, ret, alpha, draws, args, files, locals>>

(* generate_3d_frames_parallel up to the point where pool.map blocks, or  *)
(* to its early return                                                    *)
Generate3dFramesParallel ==
    /\ call = "none"
    /\ args.method = "generate_3d_frames_parallel"
    /\ call' = "generate_3d_frames_parallel"
    /\ IF ~exists(files, "metadata", elevation_path)
       THEN /\ ret' = Return(None)
            /\ pool' = [state |-> "unused", printed |-> "Error"]
       ELSE /\ ret' = ret
            /\ pool' = pool_map("render_frame_wrapper",
                                truncated(frame_numbers(files), args.num_frames),
                                processes_of(args, 4), "Rendering")
    /\ UNCHANGED <<timestamps, snapshots, sim_time, alpha, draws, args, files, locals>>

(* A pool worker takes the next chunk of the task queue *)
TakeChunk(w) ==
    /\ pool.state = "running"
    /\ w \in DOMAIN pool.workers
    /\ pool.workers[w] = Idle
    /\ pool.queue <= number_of_chunks(Len(pool.tasks), pool.chunksize)
    /\ pool' = [pool EXCEPT
                  !.queue = pool.queue + 1,
                  !.workers[w] = [chunk |-> pool.queue,
                                  task  |-> chunk_first(pool.queue, pool.chunksize)]]
    /\ UNCHANGED <<timestamps, snapshots, sim_time, call, ret, alpha, draws, args, files, locals>>

(* A pool worker runs the next task of its chunk (mapstar): an exception  *)
(* ends the chunk, and the first failed chunk is the error of the map     *)
RunTask(w) ==
    /\ pool.state = "running"
    /\ w \in DOMAIN pool.workers
    /\ pool.workers[w] # Idle
    /\ LET i == pool.workers[w].task
           k == pool.workers[w].chunk
       IN  \E r \in {run_task(pool.func, files, pool.tasks[i])} :
             /\ files' = r.files
             /\ pool' =
                  IF r.ret.kind = "raise"
                  THEN [pool EXCEPT
                          !.workers[w] = Idle,
                          !.left = pool.left - 1,
                          !.failed = pool.failed \cup {i},
                          !.error = IF pool.error = "none" THEN r.ret.exc ELSE pool.error]
                  ELSE IF i = chunk_last(k, pool.chunksize, Len(pool.tasks))
                  THEN [pool EXCEPT
                          !.workers[w] = Idle,
                          !.left = pool.left - 1,
                          !.wrote = pool.wrote \cup {[task |-> i, name |-> n] : n \in r.wrote}]
                  ELSE [pool EXCEPT
                          !.workers[w].task = i + 1,
                          !.wrote = pool.wrote \cup {[task |-> i, name |-> n] : n \in r.wrote}]
    /\ UNCHANGED <<timestamps, snapshots, sim_time, call, ret, alpha, draws, args, locals>>

(* pool.map returns or re-raises once every chunk has reported; leaving   *)
(* the with block terminates the pool; then the completion message        *)
MapReturns ==
    /\ pool.state = "running"
    /\ pool.left = 0
    /\ IF pool.error # "none"
       THEN /\ ret' = Raise(pool.error)
            /\ pool' = [pool EXCEPT !.state = "terminated"]
       ELSE /\ ret' = Return(None)
            /\ pool' = [pool EXCEPT
                          !.state = "terminated",
                          !.printed = IF pool.func = "generate_frame_wrapper"
                                      THEN "Generated" ELSE "Completed"]
    /\ UNCHANGED <<timestamps, snapshots, sim_time, call, alpha, draws, args, files, locals>>

NextPool ==
    \/ GenerateAllFrames
    \/ Generate3dFramesParallel
    \/ \E w \in 1..MaxProcesses : TakeChunk(w)
    \/ \E w \in 1..MaxProcesses : RunTask(w)
    \/ MapReturns

SpecPool == InitPool /\ [][NextPool]_vars

(* Claim helpers of the parallel renderers *)
Dispatched == pool.state \in {"running", "terminated"}

OutputFiles == {f.name : f \in {g \in files : g.dir = "output"}}

SourceFiles == {f \in files : f.dir # "output"}

ChunkOf(i) == ((i - 1) \div pool.chunksize) + 1

Fails(i) == run_task(pool.func, SourceFiles, pool.tasks[i]).ret.kind = "raise"

Reached(i) ==
    \A j \in chunk_first(ChunkOf(i), pool.chunksize)..(i - 1) : ~Fails(j)

ExpectedOutput ==
    UNION {run_task(pool.func, SourceFiles, pool.tasks[i]).wrote :
             i \in {j \in 1..Len(pool.tasks) : Reached(j) /\ ~Fails(j)}}

\* C21 (as claimed): every dispatched task writes only the image named by
\* its own frame number padded to 6 digits, no two tasks of a run write the
\* same output file, and once the map has returned the output files are the
\* ones a serial run of the chunks writes, whatever the order of the workers.
C21_TasksWriteDistinctFiles ==
    Dispatched =>
        /\ \A e \in pool.wrote :
             /\ e.name.digits = format_06d(pool.tasks[e.task])
             /\ Len(e.name.digits) = 6
        /\ \A e1 \in pool.wrote : \A e2 \in pool.wrote :
             e1.name = e2.name => e1.task = e2.task
        /\ pool.state = "terminated" => OutputFiles = ExpectedOutput

\* C22 (as claimed): when a task fails, only its frame is lost: the map
\* still renders every other dispatched frame, and the run returns after
\* printing its completion message.
C22_FailureAbortsOnlyItsFrame ==
    (pool.state = "terminated" /\ pool.failed # {}) =>
        /\ ret.kind = "return"
        /\ pool.printed \in {"Generated", "Completed"}
        /\ \A i \in 1..Len(pool.tasks) :
             ~Fails(i) => run_task(pool.func, SourceFiles, pool.tasks[i]).wrote \subseteq OutputFiles

----------------------------------------------------------------------------
(***************************************************************************)
(* video_assembler.py: VideoAssembler.  A frame is [dtype, value], one     *)
(* pixel value standing for the array; float values are in units of        *)
(* 1/One.  The environment of a call says what running ffmpeg and          *)
(* shutil.rmtree do: ffmpeg is missing, exits with an error, or runs; it   *)
(* reads frame_000000.png, frame_000001.png, ... up to the first gap.      *)
(***************************************************************************)
MaxVideoFrames == 3

astype_uint8(frame) ==
    IF frame.dtype = "uint8" THEN frame.value
    ELSE ((frame.value * 255) \div One) % 256

output_dir == <<"video", "output", "final">>

frame_dir_of(output_name) == Append(output_dir, <<output_name, "frames">>)

RECURSIVE save_loop(_, _, _, _, _)
save_loop(fs, frames, dir, prefix, i) ==
    IF i >= Len(frames) THEN fs
    ELSE save_loop({f \in fs : ~(f.dir = dir /\ f.name = Name(prefix, format_06d(i), "png"))}
                       \cup {File(dir, Name(prefix, format_06d(i), "png"),
                                  astype_uint8(At(frames, i)))},
                   frames, dir, prefix, i + 1)

save_frames_as_images(fs, frames, dir, prefix) == save_loop(fs, frames, dir, prefix, 0)

RECURSIVE ffmpeg_input(_, _, _)
ffmpeg_input(fs, dir, i) ==
    IF ~exists(fs, dir, Name("frame", format_06d(i), "png")) THEN <<>>
    ELSE <<(CHOOSE f \in fs : f.dir = dir /\ f.name = Name("frame", format_06d(i), "png")).data>>
             \o ffmpeg_input(fs, dir, i + 1)

assemble_final_video(fs, frame_directory, output_path, env) ==
    IF env.ffmpeg = "missing" THEN [ret |-> FALSE, files |-> fs]
    ELSE IF env.ffmpeg = "error" \/ ffmpeg_input(fs, frame_directory, 0) = <<>>
    THEN [ret |-> FALSE, files |-> fs]
    ELSE [ret |-> TRUE,
          files |-> {f \in fs : ~(f.dir = output_path.dir /\ f.name = output_path.name)}
                        \cup {File(output_path.dir, output_path.name,
                                   ffmpeg_input(fs, frame_directory, 0))}]

cleanup_frames(fs, frame_dir, env) ==
    IF env.rmtree = "fails" THEN fs ELSE {f \in fs : f.dir # frame_dir}

create_video_from_frames_always_cleans(fs, frames, output_name, env) ==
    LET frame_dir   == frame_dir_of(output_name)
        saved       == save_frames_as_images(fs, frames, frame_dir, "frame")
        output_path == [dir |-> output_dir, name |-> Name(output_name, <<>>, "mp4")]
        success     == assemble_final_video(saved, frame_dir, output_path, env)
    IN  IF success.ret
        THEN [ret |-> Return(Some(output_path)),
              files |-> cleanup_frames(success.files, frame_dir, env)]
        ELSE [ret |-> Return(None),
              files |-> cleanup_frames(success.files, frame_dir, env)]

create_video_from_frames(fs, frames, output_name, env) ==
    LET frame_dir   == frame_dir_of(output_name)
        saved       == save_frames_as_images(fs, frames, frame_dir, "frame")
        output_path == [dir |-> output_dir, name |-> Name(output_name, <<>>, "mp4")]
        success     == assemble_final_video(saved, frame_dir, output_path, env)
    IN  IF success.ret
        THEN [ret |-> Return(Some(output_path)),
              files |-> cleanup_frames(success.files, frame_dir, env)]
        ELSE [ret |-> Return(None), files |-> success.files]

(* The frames, environments and directories the specification starts from *)
Frames ==
    {[dtype |-> "uint8", value |-> 0], [dtype |-> "uint8", value |-> 200],
     [dtype |-> "float64", value |-> 500]}

Environments == [ffmpeg : {"missing", "error", "runs"}, rmtree : {"removes", "fails"}]

LeftOver(output_name, n) ==
    {File(frame_dir_of(output_name), Name("frame", format_06d(i), "png"), 77) :
         i \in 0..(n - 1)}

AssemblerArgs ==
    {[method |-> "create_video_from_frames", frames |-> fr, output_name |-> "demo",
      env |-> e] : fr \in SeqsUpTo(Frames, MaxVideoFrames), e \in Environments}

InitAssembler ==
    /\ args \in AssemblerArgs
    /\ files \in {LeftOver("demo", n) : n \in 0..(MaxVideoFrames + 1)}
    /\ pool = NoPool
    /\ locals = NoLocals
    /\ timestamps = <<>>
    /\ snapshots = <<>>
    /\ sim_time = 0
    /\ call = "none"
    /\ ret = NoReturn
    /\ alpha = NoAlpha
    /\ draws = NoDraws

CreateVideoFromFrames ==
    /\ call = "none"
    /\ args.method = "create_video_from_frames"
    /\ call' = "create_video_from_frames"
    /\ \E r \in {create_video_from_frames(files, args.frames, args.output_name, args.env)} :
         /\ ret' = r.ret
         /\ files' = r.files
    /\ UNCHANGED <<timestamps, snapshots, sim_time, alpha, draws, args, pool, locals>>

NextAssembler == CreateVideoFromFrames

SpecAssembler == InitAssembler /\ [][NextAssembler]_vars

(* Claim helpers of the assembler *)
Assembled == call = "create_video_from_frames"

FramesDirectory == {f \in files : f.dir = frame_dir_of(args.output_name)}

VideoPath == [dir |-> output_dir, name |-> Name(args.output_name, <<>>, "mp4")]

FfmpegExitedZero ==
    \E f \in files : f.dir = VideoPath.dir /\ f.name = VideoPath.name

\* C29: create_video_from_frames saves frame i as frame_{i:06d}.png before
\* ffmpeg runs, so a video that is made starts with the frames in order; it
\* returns the .mp4 path exactly when ffmpeg exited with code 0 and removes
\* the frames directory only then; when ffmpeg fails or is missing it
\* returns None and every saved image is still in the frames directory.
C29_FramesKeptUnlessVideoMade ==
    Assembled =>
        /\ ret = Return(Some(VideoPath)) <=> FfmpegExitedZero
        /\ ret # Return(Some(VideoPath)) => ret = Return(None)
        /\ FfmpegExitedZero =>
             /\ args.env.ffmpeg = "runs"
             /\ \A f \in files : (f.dir = VideoPath.dir /\ f.name = VideoPath.name) =>
                  /\ Len(f.data) >= Len(args.frames)
                  /\ \A i \in 1..Len(args.frames) : f.data[i] = astype_uint8(args.frames[i])
             /\ args.env.rmtree = "removes" => FramesDirectory = {}
        /\ ~FfmpegExitedZero =>
             \A i \in 0..(Len(args.frames) - 1) :
                 File(frame_dir_of(args.output_name), Name("frame", format_06d(i), "png"),
                      astype_uint8(At(args.frames, i))) \in files

\* C29 witness: ffmpeg exited with an error and the three images are kept
C29_Witness ==
    /\ Assembled /\ args.env.ffmpeg = "error" /\ ret = Return(None)
    /\ Len(args.frames) = 3
    /\ Cardinality(FramesDirectory) >= 3

----------------------------------------------------------------------------
(***************************************************************************)
(* data_exporter.py: SimulationDataExporter.export_for_video.  The         *)
(* snapshots are a dict, a set of entries [key, frame] with distinct keys; *)
(* a key is [value, canonical], the string of a number and whether that    *)
(* string is the one str(float) prints ("1.0") or another one ("1").       *)
(* The frame times are kept exact by scaling: frame_idx of total_frames    *)
(* lies at sorted_times[0] + frame_idx * sim_duration / total_frames, so   *)
(* the times are compared after multiplication by total_frames.            *)
(***************************************************************************)
MaxKeys == 3

float(key) == key.value

str_float(t) == [value |-> t, canonical |-> TRUE]

RECURSIVE sorted_floats(_)
sorted_floats(keys) ==
    IF keys = {} THEN <<>>
    ELSE LET first == CHOOSE k \in keys : \A other \in keys : float(k) <= float(other)
         IN  <<float(first)>> \o sorted_floats(keys \ {first})

has_key(dict, key) == \E e \in dict : e.key = key

getitem(dict, key) == (CHOOSE e \in dict : e.key = key).frame

format_05d(n) ==
    LET d == str(n)
    IN  IF Len(d) >= 5 THEN d ELSE [i \in 1..(5 - Len(d)) |-> 0] \o d

frames_dir == <<"video", "output", "frames">>

(* _save_frame_data: open(path, 'w') creates the file, json.dump then      *)
(* writes grid_data and fails on the shape when the index levels are       *)
(* numpy integers, which the json module cannot serialize                  *)
save_frame_data(fs, name, data, index_dtype) ==
    IF index_dtype = "int64"
    THEN [ret |-> Raise("TypeError"),
          files |-> {f \in fs : ~(f.dir = frames_dir /\ f.name = name)}
                        \cup {File(frames_dir, name, [complete |-> FALSE, grid_data |-> data])}]
    ELSE [ret |-> Return(None),
          files |-> {f \in fs : ~(f.dir = frames_dir /\ f.name = name)}
                        \cup {File(frames_dir, name, [complete |-> TRUE, grid_data |-> data])}]

(* one pass of the frame loop and the passes after it; result [ret, files] *)
RECURSIVE export_loop(_, _, _, _, _, _, _)
export_loop(fs, dict, sorted_times, total_frames, scenario_name, index_dtype, frame_idx) ==
    IF frame_idx >= total_frames THEN [ret |-> Return(None), files |-> fs]
    ELSE
      LET scaled       == [k \in 1..Len(sorted_times) |-> sorted_times[k] * total_frames]
          sim_duration == sorted_times[Len(sorted_times)] - sorted_times[1]
          q            == scaled[1] + frame_idx * sim_duration
          snapshot_idx == find_snapshot_indices(q, scaled)
          idx1         == snapshot_idx.value[1]
          idx2         == snapshot_idx.value[2]
          found(i)     == has_key(dict, str_float(At(sorted_times, i)))
          snaps        == [k \in 1..Len(sorted_times) |->
                              IF has_key(dict, str_float(sorted_times[k]))
                              THEN getitem(dict, str_float(sorted_times[k]))
                              ELSE EmptyFrame]
          frame_data   == interpolate_snapshot(q, scaled, snaps, snapshot_idx.value).ret
          saved        == save_frame_data(fs, Name(<<scenario_name, "frame">>,
                                                   format_05d(frame_idx), "json"),
                                          frame_data.value, index_dtype)
      IN  IF snapshot_idx.kind = "raise" THEN [ret |-> snapshot_idx, files |-> fs]
          ELSE IF ~found(idx1) \/ ~found(idx2) THEN [ret |-> Raise("KeyError"), files |-> fs]
          ELSE IF frame_data.kind = "raise" THEN [ret |-> frame_data, files |-> fs]
          ELSE IF saved.ret.kind = "raise" THEN saved
          ELSE export_loop(saved.files, dict, sorted_times, total_frames, scenario_name,
                           index_dtype, frame_idx + 1)

\* variant: one snapshot is enough, len(sorted_times) < 1
export_for_video_needs_one(fs, dict, target_duration, fps, scenario_name, index_dtype) ==
    LET total_frames == target_duration * fps
        sorted_times == sorted_floats({e.key : e \in dict})
        frames       == export_loop(fs, dict, sorted_times, total_frames, scenario_name,
                                    index_dtype, 0)
        sim_duration == sorted_times[Len(sorted_times)] - sorted_times[1]
    IN  IF Len(sorted_times) < 1 THEN [ret |-> Raise("ValueError"), files |-> fs]
        ELSE IF target_duration = 0 THEN [ret |-> Raise("ZeroDivisionError"), files |-> fs]
        ELSE IF frames.ret.kind = "raise" THEN frames
        ELSE [ret |-> Return([total_frames |-> total_frames,
                              simulation_duration |-> sim_duration]),
              files |-> frames.files \cup
                          {File(frames_dir, Name(<<scenario_name, "metadata">>, <<>>, "json"),
                                [complete |-> TRUE, grid_data |-> EmptyFrame])}]

(* export_for_video; target_duration is a whole number of seconds; result  *)
(* [ret, files]                                                            *)
export_for_video(fs, dict, target_duration, fps, scenario_name, index_dtype) ==
    LET total_frames == target_duration * fps
        sorted_times == sorted_floats({e.key : e \in dict})
        frames       == export_loop(fs, dict, sorted_times, total_frames, scenario_name,
                                    index_dtype, 0)
        sim_duration == sorted_times[Len(sorted_times)] - sorted_times[1]
    IN  IF Len(sorted_times) < 2 THEN [ret |-> Raise("ValueError"), files |-> fs]
        ELSE IF target_duration = 0 THEN [ret |-> Raise("ZeroDivisionError"), files |-> fs]
        ELSE IF frames.ret.kind = "raise" THEN frames
        ELSE [ret |-> Return([total_frames |-> total_frames,
                              simulation_duration |-> sim_duration]),
              files |-> frames.files \cup
                          {File(frames_dir, Name(<<scenario_name, "metadata">>, <<>>, "json"),
                                [complete |-> TRUE, grid_data |-> EmptyFrame])}]

(* The dicts and arguments the specification starts from *)
TreeFrame ==
    [index |-> Cells, cols |-> [col \in {"state"} |-> [c \in Cells |-> "Tree"]]]

Keys == [value : 0..MaxSimTime, canonical : BOOLEAN]

Dicts ==
    UNION {[ks -> {EmptyFrame, TreeFrame}] : ks \in {s \in SUBSET Keys : Cardinality(s) <= MaxKeys}}

ExportArgs ==
    {[method |-> "export_for_video",
      simulation_snapshots |-> {[key |-> k, frame |-> d[k]] : k \in DOMAIN d},
      target_duration |-> td, fps |-> f, scenario_name |-> "baseline",
      index_dtype |-> t] :
        d \in Dicts, td \in 0..2, f \in FrameRates, t \in {"int64", "float64"}}

InitExport ==
    /\ args \in ExportArgs
    /\ files = NoFiles
    /\ pool = NoPool
    /\ locals = NoLocals
    /\ timestamps = <<>>
    /\ snapshots = <<>>
    /\ sim_time = 0
    /\ call = "none"
    /\ ret = NoReturn
    /\ alpha = NoAlpha
    /\ draws = NoDraws

ExportForVideo ==
    /\ call = "none"
    /\ args.method = "export_for_video"
    /\ call' = "export_for_video"
    /\ timestamps' = sorted_floats({e.key : e \in args.simulation_snapshots})
    /\ \E r \in {export_for_video(files, args.simulation_snapshots, args.target_duration,
                                  args.fps, args.scenario_name, args.index_dtype)} :
         /\ ret' = r.ret
         /\ files' = r.files
    /\ UNCHANGED <<snapshots, sim_time, alpha, draws, args, pool, locals>>

NextExport == ExportForVideo

SpecExport == InitExport /\ [][NextExport]_vars

(* Claim helpers of the export *)
VideoExported == call = "export_for_video"

\* C27: export_for_video with fewer than 2 snapshots raises ValueError and
\* has written neither a frame file nor the metadata file.
C27_TooFewSnapshotsWriteNothing ==
    (VideoExported /\ Cardinality(args.simulation_snapshots) < 2) =>
        /\ ret = Raise("ValueError")
        /\ files = {}

\* C27 witness: one snapshot, two frames asked for
C27_Witness ==
    /\ VideoExported /\ Cardinality(args.simulation_snapshots) = 1
    /\ args.target_duration * args.fps = 2
    /\ ret = Raise("ValueError") /\ files = {}

----------------------------------------------------------------------------
(***************************************************************************)
(* compile_video.py: VideoCompiler.compile_video.  An image is [kind, a,   *)
(* b]: the title, a source frame (a its number), a split screen of the 2D  *)
(* frame a and the 3D frame b, a blend a / b of the way to black, or an    *)
(* image left in the temporary directory by an earlier run.                *)
(***************************************************************************)
MaxStructure == 2
MaxSourceFrames == 2

Image(kind, a, b) == [kind |-> kind, a |-> a, b |-> b]

temp_dir == "temp_video"

copy(fs, data, dir, name) ==
    {f \in fs : ~(f.dir = dir /\ f.name = name)} \cup {File(dir, name, data)}

data_of(fs, dir, name) == (CHOOSE f \in fs : f.dir = dir /\ f.name = name).data

(* sorted(frames_path.glob("<dir>/<prefix>_*.png")) *)
source_frames_of(fs, dir, prefix) ==
    sorted({f.name : f \in {g \in fs : g.dir = dir /\ g.name.prefix = prefix
                                        /\ g.name.ext = "png"}})

(* int(i * len(source_frames) / target_frames), at most len - 1 *)
source_index(i, len, target_frames) ==
    IF (i * len) \div target_frames < len - 1 THEN (i * len) \div target_frames
    ELSE len - 1

RECURSIVE copy_loop(_, _, _, _, _, _)
copy_loop(fs, dir, source_frames, start_frame, target_frames, i) ==
    IF i >= target_frames THEN fs
    ELSE copy_loop(copy(fs,
                        data_of(fs, dir, At(source_frames,
                                            source_index(i, Len(source_frames), target_frames))),
                        temp_dir, Name("frame", format_06d(start_frame + i), "png")),
                   dir, source_frames, start_frame, target_frames, i + 1)

copy_frames_with_interpolation(fs, dir, source_frames, start_frame, target_frames) ==
    IF source_frames = <<>> THEN fs
    ELSE copy_loop(fs, dir, source_frames, start_frame, target_frames, 0)

RECURSIVE title_loop(_, _, _, _)
title_loop(fs, frame_counter, segment_frames, i) ==
    IF i >= segment_frames THEN fs
    ELSE title_loop(copy(fs, Image("title", 0, 0), temp_dir,
                         Name("frame", format_06d(frame_counter + i), "png")),
                    frame_counter, segment_frames, i + 1)

RECURSIVE split_loop(_, _, _, _, _, _)
split_loop(fs, source_2d, source_3d, frame_counter, segment_frames, i) ==
    IF i >= segment_frames THEN [ret |-> Return(None), files |-> fs]
    ELSE LET src_idx == source_index(i, Len(source_2d), segment_frames)
         IN  IF src_idx < Len(source_2d) /\ src_idx < Len(source_3d)
             THEN IF Len(source_2d) = 0
                  THEN [ret |-> Raise("IndexError"), files |-> fs]     \* source_2d[-1]
                  ELSE split_loop(copy(fs,
                                       Image("split", int(At(source_2d, src_idx).digits),
                                             int(At(source_3d, src_idx).digits)),
                                       temp_dir,
                                       Name("frame", format_06d(frame_counter + i), "png")),
                                  source_2d, source_3d, frame_counter, segment_frames, i + 1)
             ELSE split_loop(fs, source_2d, source_3d, frame_counter, segment_frames, i + 1)

RECURSIVE fade_loop(_, _, _, _)
fade_loop(fs, frame_counter, segment_frames, i) ==
    IF i >= segment_frames THEN fs
    ELSE fade_loop(copy(fs, Image("fade", i, segment_frames - 1), temp_dir,
                        Name("frame", format_06d(frame_counter + i), "png")),
                   frame_counter, segment_frames, i + 1)

(* one pass of the segment loop; result [ret, files, frame_counter] *)
process_segment(fs, segment, frame_rate, frame_counter) ==
    LET segment_frames == segment.duration * frame_rate
        source_2d == source_frames_of(fs, "2d_frames", "frame")
        source_3d == source_frames_of(fs, "3d_frames", "3d_frame")
        split     == split_loop(fs, source_2d, source_3d, frame_counter, segment_frames, 0)
    IN  CASE segment.type = "title" ->
               [ret |-> Return(None),
                files |-> title_loop(copy(fs, Image("title", 0, 0), temp_dir,
                                          Name("title", <<>>, "png")),
                                     frame_counter, segment_frames, 0),
                frame_counter |-> frame_counter + segment_frames]
          [] segment.type = "2d_view" ->
               [ret |-> Return(None),
                files |-> copy_frames_with_interpolation(fs, "2d_frames", source_2d,
                                                         frame_counter, segment_frames),
                frame_counter |-> frame_counter + segment_frames]
          [] segment.type = "3d_view" ->
               [ret |-> Return(None),
                files |-> copy_frames_with_interpolation(fs, "3d_frames", source_3d,
                                                         frame_counter, segment_frames),
                frame_counter |-> frame_counter + segment_frames]
          [] segment.type = "split_screen" ->
               [ret |-> split.ret, files |-> split.files,
                frame_counter |-> frame_counter + segment_frames]
          [] segment.type = "fade_out" ->
               IF frame_counter >= 1
                    /\ exists(fs, temp_dir, Name("frame", format_06d(frame_counter - 1), "png"))
               THEN IF segment_frames = 1
                    THEN [ret |-> Raise("ZeroDivisionError"), files |-> fs,
                          frame_counter |-> frame_counter]
                    ELSE [ret |-> Return(None),
                          files |-> fade_loop(fs, frame_counter, segment_frames, 0),
                          frame_counter |-> frame_counter + segment_frames]
               ELSE [ret |-> Return(None), files |-> fs, frame_counter |-> frame_counter]
          [] OTHER -> [ret |-> Return(None), files |-> fs, frame_counter |-> frame_counter]

(* The source directories and arguments the specification starts from *)
SourceImages(dir, prefix, kind, n) ==
    {File(dir, Name(prefix, format_06d(i), "png"), Image(kind, i, 0)) : i \in 0..(n - 1)}

SegmentTypes == {"title", "2d_view", "3d_view", "split_screen", "fade_out"}

Segments == [type : SegmentTypes, duration : 1..2]

CompilerArgs ==
    {[method |-> "compile_video", video_structure |-> vs, frame_rate |-> f, ffmpeg |-> e] :
        vs \in SeqsUpTo(Segments, MaxStructure), f \in FrameRates,
        e \in {"error", "runs"}}

InitCompiler ==
    /\ args \in CompilerArgs
    /\ \E n2 \in 0..MaxSourceFrames, n3 \in 0..MaxSourceFrames :
         files = SourceImages("2d_frames", "frame", "2d", n2)
                     \cup SourceImages("3d_frames", "3d_frame", "3d", n3)
    /\ pool = NoPool
    /\ locals = NoLocals
    /\ timestamps = <<>>
    /\ snapshots = <<>>
    /\ sim_time = 0
    /\ call = "none"
    /\ ret = NoReturn
    /\ alpha = NoAlpha
    /\ draws = NoDraws

(* compile_video up to its segment loop *)
CompileVideo ==
    /\ call = "none"
    /\ args.method = "compile_video"
    /\ call' = "compile_video"
    /\ locals' = [segment |-> 0, frame_counter |-> 0]
    /\ UNCHANGED <<timestamps, snapshots, sim_time, ret, alpha, draws, args, files, pool>>

(* one pass of the segment loop *)
ProcessSegment ==
    /\ call = "compile_video"
    /\ ret = NoReturn
    /\ locals.segment < Len(args.video_structure)
    /\ \E r \in {process_segment(files, At(args.video_structure, locals.segment),
                                 args.frame_rate, locals.frame_counter)} :
         /\ files' = r.files
         /\ IF r.ret.kind = "raise"
            THEN ret' = r.ret /\ locals' = locals
            ELSE ret' = ret /\ locals' = [segment |-> locals.segment + 1,
                                          frame_counter |-> r.frame_counter]
    /\ UNCHANGED <<timestamps, snapshots, sim_time, call, alpha, draws, args, pool>>

(* after the loop: ffmpeg with check=True, then the temporary directory   *)
(* is removed                                                             *)
RunFfmpeg ==
    /\ call = "compile_video"
    /\ ret = NoReturn
    /\ locals.segment = Len(args.video_structure)
    /\ IF args.ffmpeg = "error" \/ ffmpeg_input(files, temp_dir, 0) = <<>>
       THEN /\ ret' = Raise("CalledProcessError")
            /\ files' = files
       ELSE /\ ret' = Return(None)
            /\ files' = {f \in files : f.dir # temp_dir}
                            \cup {File("output", Name("video", <<>>, "mp4"),
                                       Image("video", Len(ffmpeg_input(files, temp_dir, 0)), 0))}
    /\ UNCHANGED <<timestamps, snapshots, sim_time, call, alpha, draws, args, pool, locals>>

NextCompiler == CompileVideo \/ ProcessSegment \/ RunFfmpeg

SpecCompiler == InitCompiler /\ [][NextCompiler]_vars

(* Claim helpers of the compiler *)
SegmentsProcessed ==
    /\ call = "compile_video"
    /\ ret = NoReturn
    /\ locals.segment = Len(args.video_structure)

\* C28 (as claimed): once compile_video has processed every segment, the
\* temporary directory holds frame_NNNNNN.png for every N below
\* frame_counter, whatever the two source directories hold.
C28_TempFramesContiguous ==
    SegmentsProcessed =>
        \A n \in 0..(locals.frame_counter - 1) :
            exists(files, temp_dir, Name("frame", format_06d(n), "png"))

----------------------------------------------------------------------------
(***************************************************************************)
(* scripts/segment_composer.py, scripts/transitions.py,                    *)
(* scripts/frame_generator.py: the opening, middle and finale segments     *)
(***************************************************************************)

(* A snapshot is a pandas DataFrame or a list of row dicts.  A DataFrame   *)
(* has its index (the row keys in row order, each the tuple of its level   *)
(* values), the names of the index levels (none for a default RangeIndex)  *)
(* and its columns; a row dict is a function from column names to values.  *)
DataFrame(data) ==
    [type |-> "DataFrame",
     index |-> [i \in 1..Len(data) |-> <<i - 1>>],
     names |-> <<>>,
     cols |-> [col \in (IF Len(data) = 0 THEN {} ELSE DOMAIN data[1]) |->
                  [k \in {<<i>> : i \in 0..(Len(data) - 1)} |-> data[k[1] + 1][col]]]]

list(data) == [type |-> "list", data |-> data]

\* df.set_index(['x', 'y'], inplace=True)
set_index(df) ==
    LET key(i) == <<df.cols["x"][df.index[i]], df.cols["y"][df.index[i]]>>
        keys == [i \in 1..Len(df.index) |-> key(i)]
    IN  [type |-> "DataFrame",
         index |-> keys,
         names |-> <<"x", "y">>,
         cols |-> [col \in DOMAIN df.cols \ {"x", "y"} |->
                      [k \in {keys[i] : i \in 1..Len(keys)} |->
                          df.cols[col][df.index[CHOOSE i \in 1..Len(keys) : keys[i] = k]]]]]

\* snapshot.to_dict('records'): one dict per row, of the columns only
to_dict(df) ==
    [i \in 1..Len(df.index) |-> [col \in DOMAIN df.cols |-> df.cols[col][df.index[i]]]]

\* index.get_level_values(level), a KeyError for a level the index lacks
get_level_values(df, level) ==
    IF \E k \in 1..Len(df.names) : df.names[k] = level
    THEN Return([i \in 1..Len(df.index) |->
                    df.index[i][CHOOSE k \in 1..Len(df.names) : df.names[k] = level]])
    ELSE Raise("KeyError")

RECURSIVE sum(_)
sum(values) == IF Len(values) = 0 THEN 0 ELSE Head(values) + sum(Tail(values))

mean(values) == Rat(sum(values), Len(values))

max(values) ==
    CHOOSE v \in {values[i] : i \in 1..Len(values)} :
        \A i \in 1..Len(values) : values[i] <= v

min(a, b) == IF a <= b THEN a ELSE b

\* name = value, then the statements that follow: value is computed once
Assign(value, Rest(_)) == CHOOSE r \in {Rest(name) : name \in {value}} : TRUE

\* a loop that appends one result per iteration: the first exception ends it
collect(results) ==
    Assign(results \o <<>>, LAMBDA done :
        IF \E i \in 1..Len(done) : done[i].kind = "raise"
        THEN done[CHOOSE i \in 1..Len(done) :
                     /\ done[i].kind = "raise"
                     /\ \A j \in 1..(i - 1) : done[j].kind = "return"]
        ELSE Return([i \in 1..Len(done) |-> done[i].value] \o <<>>))

dict_to_dataframe(grid_data) ==
    LET df == DataFrame(grid_data)
    IN  IF {"x", "y"} \subseteq DOMAIN df.cols THEN set_index(df) ELSE df

\* the cells of a row list or frame in a state (row.get('state', 'Empty'))
count_state(grid_data, state) ==
    Cardinality({i \in 1..Len(grid_data) :
                    IF "state" \in DOMAIN grid_data[i]
                    THEN grid_data[i]["state"] = state
                    ELSE state = "Empty"})

(* A rendered frame: a uint8 RGB array of the renderer's resolution.  The  *)
(* record keeps what was drawn (value: the burning cells), the view, the   *)
(* magnification applied to it, its brightness and what was laid over it.  *)
resolution == <<1920, 1080>>

GridFrameRenderer_render_frame(grid_data, frame_number, layout) ==
    IF get_level_values(grid_data, "x").kind = "raise" THEN Raise("KeyError")
    ELSE Return([dtype |-> "uint8",
                 value |-> count_state(to_dict(grid_data), "Burning"),
                 width |-> resolution[1], height |-> resolution[2],
                 view |-> "2d", layout |-> layout, camera |-> None,
                 zoom_x |-> Num(1), zoom_y |-> Num(1), brightness |-> Num(1),
                 overlays |-> "none", legend |-> FALSE, right |-> None,
                 split_x |-> None])

TerrainFrameRenderer_render_3d_frame(grid_data, camera_position) ==
    IF get_level_values(grid_data, "x").kind = "raise" THEN Raise("KeyError")
    ELSE Return([dtype |-> "uint8",
                 value |-> count_state(to_dict(grid_data), "Burning"),
                 width |-> resolution[1], height |-> resolution[2],
                 view |-> "3d", layout |-> "full", camera |-> Some(camera_position),
                 zoom_x |-> Num(1), zoom_y |-> Num(1), brightness |-> Num(1),
                 overlays |-> "none", legend |-> FALSE, right |-> None,
                 split_x |-> None])

add_overlays(frame, metrics, time_info, style) == [frame EXCEPT !.overlays = style]

add_legend(frame, position) == [frame EXCEPT !.legend = TRUE]

(* scripts/transitions.py *)
fade_from_black(frame, progress) ==
    [frame EXCEPT !.brightness = Times(@, progress)]

fade_to_black(frame, progress) ==
    [frame EXCEPT !.brightness = Times(@, Minus(Num(1), progress))]

\* the columns left of split_x show frame2, the others frame1
split_screen_wipe(frame1, frame2, progress) ==
    [frame1 EXCEPT !.view = "wipe",
                   !.split_x = Some(Trunc(Times(Num(frame1.width), progress))),
                   !.right = Some(frame2.value)]

create_split_screen(frame1, frame2) ==
    [frame1 EXCEPT !.view = "split",
                   !.split_x = Some(frame1.width \div 2),
                   !.right = Some(frame2.value)]

\* the crop of one axis and the factor that stretches it back to size
crop(size, c, zoom) ==
    LET crop_size == Trunc(Over(Num(size), zoom))
        lo == IF c - crop_size \div 2 > 0 THEN c - crop_size \div 2 ELSE 0
        hi == min(size, lo + crop_size)
    IN  IF hi > lo THEN hi - lo ELSE 0

apply_zoom(frame, center, zoom) ==
    LET cropped_width == crop(frame.width, center[1], zoom)
        cropped_height == crop(frame.height, center[2], zoom)
    IN  IF cropped_width = 0 \/ cropped_height = 0 THEN Raise("ZeroDivisionError")
        ELSE Return([frame EXCEPT
                        !.zoom_x = Times(@, Rat(frame.width, cropped_width)),
                        !.zoom_y = Times(@, Rat(frame.height, cropped_height))])

zoom_transition(frames, zoom_center, zoom_factor) ==
    LET n_frames == Len(frames)
        current_zoom(i) ==
            LET t == IF n_frames > 1 THEN Rat(i, n_frames - 1) ELSE Num(0)
                zoom_progress ==
                    IF Less(t, Rat(1, 2)) THEN Times(Num(2), Times(t, t))
                    ELSE Minus(Num(1), Times(Num(2), Times(Minus(Num(1), t),
                                                           Minus(Num(1), t))))
            IN  Plus(Num(1), Times(Minus(zoom_factor, Num(1)), zoom_progress))
    IN  collect([i \in 1..n_frames |->
                    apply_zoom(frames[i], zoom_center, current_zoom(i - 1))])

(* scripts/segment_composer.py *)
render_2d_frame(frame_data, frame_number) ==
    GridFrameRenderer_render_frame(dict_to_dataframe(frame_data.grid_data), frame_number, "full")

render_3d_frame(frame_data, camera_pos) ==
    TerrainFrameRenderer_render_3d_frame(dict_to_dataframe(frame_data.grid_data), camera_pos)

render_zoom_frame(frame_data, zoom_progress) ==
    Assign(dict_to_dataframe(frame_data.grid_data), LAMBDA grid_df :
        LET is_burning(k) == grid_df.cols["state"][k] = "Burning"
            burning_cells == [grid_df EXCEPT !.index = SelectSeq(grid_df.index, is_burning)]
            of == IF Len(burning_cells.index) > 0 THEN burning_cells ELSE grid_df
            xs == get_level_values(of, "x")
            ys == get_level_values(of, "y")
            x_center == IF Len(burning_cells.index) > 0 THEN mean(xs.value)
                        ELSE Rat(max(xs.value), 2)
            y_center == IF Len(burning_cells.index) > 0 THEN mean(ys.value)
                        ELSE Rat(max(ys.value), 2)
            frame == GridFrameRenderer_render_frame(grid_df, 0, "full")
            zoom_factor == Plus(Num(1), Times(Num(2 - 1), Minus(Num(1), zoom_progress)))
            zoomed_frames ==
                zoom_transition(<<frame.value>>,
                                <<Trunc(Times(x_center, Num(10))),
                                  Trunc(Times(y_center, Num(10)))>>,
                                zoom_factor)
        IN  IF "state" \notin DOMAIN grid_df.cols THEN Raise("KeyError")
            ELSE IF xs.kind = "raise" \/ ys.kind = "raise" THEN Raise("KeyError")
            ELSE IF frame.kind = "raise" THEN frame
            ELSE Assign(zoomed_frames, LAMBDA zoomed :
                     IF zoomed.kind = "raise" THEN zoomed ELSE Return(zoomed.value[1])))

calculate_metrics(frame_data) ==
    LET grid_data == frame_data.grid_data
        tree_cells == count_state(grid_data, "Tree") + count_state(grid_data, "Burning")
                          + count_state(grid_data, "Burnt")
    IN  [active_fires |-> count_state(grid_data, "Burning"),
         burnt_fraction |-> IF tree_cells > 0
                            THEN Rat(count_state(grid_data, "Burnt"), tree_cells)
                            ELSE Num(0),
         percolation |-> Num(0)]

\* min(snapshot_times, key=lambda t: abs(t - frame_time)): the first of the
\* closest times; the distances are compared as multiples of 1/frame_time.d
closest(snapshot_times, frame_time) ==
    LET distance(k) == Abs(snapshot_times[k] * frame_time.d - frame_time.n)
    IN  snapshot_times[CHOOSE k \in 1..Len(snapshot_times) :
            \A j \in 1..Len(snapshot_times) :
                distance(k) < distance(j) \/ (distance(k) = distance(j) /\ k <= j)]

load_frame_data(simulation_data, start_time, end_time) ==
    LET n_frames == Trunc(Times(Minus(end_time, start_time), Num(60)))
        frame(snapshot_times, i) ==
            Assign(Plus(start_time, Rat(i, 60)), LAMBDA frame_time :
            Assign(closest(snapshot_times, frame_time), LAMBDA closest_time :
                IF ~has_key(simulation_data, str_float(closest_time)) THEN Raise("KeyError")
                ELSE Assign(getitem(simulation_data, str_float(closest_time)),
                            LAMBDA snapshot :
                         Return([grid_data |-> IF snapshot.type = "DataFrame"
                                               THEN to_dict(snapshot) \o <<>>
                                               ELSE snapshot.data,
                                 time |-> frame_time]))))
    IN  Assign(sorted_floats({e.key : e \in simulation_data}), LAMBDA snapshot_times :
            IF n_frames > 0 /\ Len(snapshot_times) = 0 THEN Raise("ValueError")
            ELSE collect([i \in 1..n_frames |-> frame(snapshot_times, i - 1)]))

\* frame_data_list[min(i, len(frame_data_list) - 1)]
frame_data_at(frame_data_list, i) ==
    IF Len(frame_data_list) = 0 THEN Raise("IndexError")
    ELSE Return(At(frame_data_list, min(i, Len(frame_data_list) - 1)))

zoom_duration == Num(2)

\* one pass of the loop of compose_opening_segment
opening_frame(frame_data_list, i, fps, zoom_frames) ==
    LET frame_data == frame_data_at(frame_data_list, i)
    IN  IF frame_data.kind = "raise" THEN frame_data
        ELSE Assign(IF i < zoom_frames
                    THEN render_zoom_frame(frame_data.value, Rat(i, zoom_frames))
                    ELSE render_2d_frame(frame_data.value, i), LAMBDA frame :
            LET overlaid == add_overlays(frame.value, calculate_metrics(frame_data.value),
                                         [video_time |-> Rat(i, fps), frame |-> i],
                                         "minimal")
                faded == IF i < fps THEN fade_from_black(overlaid, Rat(i, fps))
                         ELSE overlaid
            IN  IF frame.kind = "raise" THEN frame
                ELSE Return(IF i > fps * 2 THEN add_legend(faded, "bottom-right")
                            ELSE faded))

compose_opening_segment(simulation_data, duration, fps) ==
    LET total_frames == Trunc(Times(duration, Num(fps)))
        zoom_frames == Trunc(Times(zoom_duration, Num(fps)))
    IN  Assign(load_frame_data(simulation_data, Num(0), duration), LAMBDA frame_data_list :
            IF frame_data_list.kind = "raise" THEN frame_data_list
            ELSE collect([i \in 1..total_frames |->
                             opening_frame(frame_data_list.value, i - 1, fps,
                                           zoom_frames)]))

\* one pass of the loop of compose_middle_segment
middle_frame(frame_data_list, camera_positions, i, start_time, fps) ==
    LET frame_data == frame_data_at(frame_data_list, i)
    IN  IF frame_data.kind = "raise" THEN frame_data
        ELSE IF i >= Len(camera_positions) THEN Raise("IndexError")
        ELSE Assign(render_3d_frame(frame_data.value, At(camera_positions, i)),
                    LAMBDA frame :
            IF frame.kind = "raise" THEN frame
            ELSE Return(add_overlays(frame.value, calculate_metrics(frame_data.value),
                                     [video_time |-> Plus(start_time, Rat(i, fps)),
                                      frame |-> i],
                                     "full")))

compose_middle_segment(simulation_data, duration, start_time, fps) ==
    LET total_frames == Trunc(Times(duration, Num(fps)))
    IN  Assign(load_frame_data(simulation_data, start_time, Plus(start_time, duration)),
               LAMBDA frame_data_list :
        IF frame_data_list.kind = "raise" THEN frame_data_list
        ELSE Assign(paths_call("orbit", duration, fps), LAMBDA camera_positions :
            IF camera_positions.kind = "raise" THEN camera_positions
            ELSE collect([i \in 1..total_frames |->
                             middle_frame(frame_data_list.value, camera_positions.value,
                                          i - 1, start_time, fps)])))

\* one pass of the first loop of compose_finale_segment
finale_frame(baseline_frames, scenario_frames, i, fps) ==
    LET baseline_frame_data == frame_data_at(baseline_frames, i)
        scenario_frame_data == frame_data_at(scenario_frames, i)
        transition_frames == fps
    IN  IF baseline_frame_data.kind = "raise" THEN baseline_frame_data
        ELSE IF scenario_frame_data.kind = "raise" THEN scenario_frame_data
        ELSE Assign(render_2d_frame(baseline_frame_data.value, i), LAMBDA baseline_render :
            IF baseline_render.kind = "raise" THEN baseline_render
            ELSE Assign(render_2d_frame(scenario_frame_data.value, i),
                        LAMBDA scenario_render :
                IF scenario_render.kind = "raise" THEN scenario_render
                ELSE IF i < transition_frames
                THEN Return(split_screen_wipe(baseline_render.value, scenario_render.value,
                                              Rat(i, transition_frames)))
                ELSE Return(create_split_screen(baseline_render.value,
                                                scenario_render.value))))

\* the second loop of compose_finale_segment from i on: frames[i] of a
\* negative i counts from the end of the list
RECURSIVE fade_out(_, _, _, _)
fade_out(frames, i, fade_start, total_frames) ==
    IF i >= total_frames THEN Return(frames)
    ELSE IF i >= Len(frames) \/ i < -Len(frames) THEN Raise("IndexError")
    ELSE LET at == IF i < 0 THEN Len(frames) + i + 1 ELSE i + 1
             progress == Rat(i - fade_start, total_frames - fade_start)
         IN  Assign([frames EXCEPT ![at] = fade_to_black(@, progress)], LAMBDA faded :
                 fade_out(faded, i + 1, fade_start, total_frames))

compose_finale_segment(baseline_data, scenario_data, duration, start_time, fps) ==
    LET total_frames == Trunc(Times(duration, Num(fps)))
        fade_start == total_frames - Trunc(Times(Rat(1, 2), Num(fps)))
    IN  Assign(load_frame_data(baseline_data, start_time, Plus(start_time, duration)),
               LAMBDA baseline_frames :
        IF baseline_frames.kind = "raise" THEN baseline_frames
        ELSE Assign(load_frame_data(scenario_data, start_time, Plus(start_time, duration)),
                    LAMBDA scenario_frames :
            IF scenario_frames.kind = "raise" THEN scenario_frames
            ELSE Assign(collect([i \in 1..total_frames |->
                                    finale_frame(baseline_frames.value,
                                                 scenario_frames.value, i - 1, fps)]),
                        LAMBDA frames :
                IF frames.kind = "raise" THEN frames
                ELSE fade_out(frames.value, fade_start, fade_start, total_frames))))


(***************************************************************************)
(* generate_demo_video.py and python/utils/data_loader.py: the snapshots   *)
(* of the demo video and its three segments                                *)
(***************************************************************************)

\* the rows pd.read_csv parses from a file, by its header line: one row per
\* cell of the grid, the first cell burning
rows_of(data) ==
    [i \in 1..GridWidth |->
        IF data = "x,y,state"
        THEN [x |-> i - 1, y |-> 0, state |-> IF i = 1 THEN "Burning" ELSE "Tree"]
        ELSE [state |-> IF i = 1 THEN "Burning" ELSE "Tree"]]

load_grid_snapshot(fs, dir, name) ==
    LET csv == read_csv(fs, dir, name)
        df == DataFrame(rows_of(csv.value))
    IN  IF csv.kind = "raise" THEN csv
        ELSE Return(IF {"x", "y"} \subseteq DOMAIN df.cols THEN set_index(df) ELSE df)

\* path.glob(pattern) for the two patterns of _load_simulation_snapshots
path_glob(fs, dir, pattern) ==
    {f.name : f \in {g \in fs : /\ g.dir = dir
                                /\ g.name.ext = "_grid.csv"
                                /\ pattern = "*rcp85*_grid.csv" => g.name.prefix = "rcp85_step"}}

\* sorted(paths): "rcp85_step" sorts before "step", then the digits decide
RECURSIVE sorted_paths(_)
sorted_paths(names) ==
    IF names = {} THEN <<>>
    ELSE LET first == CHOOSE a \in names : \A b \in names \ {a} :
                          \/ a.prefix = "rcp85_step" /\ b.prefix = "step"
                          \/ a.prefix = b.prefix /\ name_less(a, b)
         IN  <<first>> \o sorted_paths(names \ {first})

load_all_snapshots(fs, directory, pattern) ==
    LET paths == sorted_paths(path_glob(fs, directory, pattern))
    IN  collect([i \in 1..Len(paths) |-> load_grid_snapshot(fs, directory, paths[i])])

load_simulation_snapshots(fs, out_dir, scenario) ==
    LET pattern == IF scenario # "baseline" THEN "*rcp85*_grid.csv" ELSE "*_grid.csv"
        the_snapshots == load_all_snapshots(fs, out_dir, pattern)
    IN  IF the_snapshots.kind = "raise" THEN the_snapshots
        ELSE Return({[key |-> str_float(i - 1), frame |-> the_snapshots.value[i]] :
                        i \in 1..Len(the_snapshots.value)})

(* _generate_sample_snapshots on a grid_size x grid_size grid.  Radii are  *)
(* kept doubled (spread_rate is 1.0 or 1.5) and distances squared.  draw   *)
(* says whether the np.random.random() values fall below ("low") or above  *)
(* ("high") the thresholds they are compared with; of the columns only     *)
(* state, the one the renderers read, is kept.                             *)
sample_state(x, y, t, grid_size, scenario, draw) ==
    LET spread_rate == IF scenario = "rcp85" THEN 3 ELSE 2
        fire_radius == min(t * spread_rate, 2 * (grid_size \div 3))
        fire_center == grid_size \div 2
        dist == (x - fire_center) * (x - fire_center) + (y - fire_center) * (y - fire_center)
    IN  IF 400 * dist < 49 * fire_radius * fire_radius THEN "Burnt"
        ELSE IF 4 * dist < fire_radius * fire_radius THEN "Burning"
        ELSE IF draw = "high" THEN "Tree" ELSE "Empty"

generate_sample_snapshots(n_snapshots, grid_size, scenario, draw) ==
    {[key |-> str_float(t),
      frame |-> set_index(DataFrame(
          [i \in 1..(grid_size * grid_size) |->
              [x |-> (i - 1) \div grid_size, y |-> (i - 1) % grid_size,
               state |-> sample_state((i - 1) \div grid_size, (i - 1) % grid_size,
                                      t, grid_size, scenario, draw)]]))] :
        t \in 0..(n_snapshots - 1)}

\* the random numbers of the ignite mask fall below ignite_prob for "low"
modify_snapshots_for_scenario(baseline_snapshots, draw) ==
    {[key |-> e.key,
      frame |-> [e.frame EXCEPT !.cols =
          [col \in DOMAIN e.frame.cols |->
              IF col = "state"
              THEN [k \in DOMAIN e.frame.cols[col] |->
                       IF e.frame.cols[col][k] = "Tree" /\ draw = "low"
                       THEN "Burning" ELSE e.frame.cols[col][k]]
              ELSE e.frame.cols[col]]]] : e \in baseline_snapshots}

\* create_video_variants: the WebM and GIF versions next to the video
create_video_variants(fs, video_path, env) ==
    IF env.ffmpeg # "runs" THEN fs
    ELSE LET mp4 == CHOOSE f \in fs : f.dir = video_path.dir /\ f.name = video_path.name
         IN  fs \cup {File(video_path.dir, [video_path.name EXCEPT !.ext = ext], mp4.data) :
                         ext \in {"webm", "gif"}}

(* generate_demo_video: what it returned or raised, the files after it and *)
(* the frames in all_frames when it ended                                  *)
generate_demo_video(fs, dir, output_name, use_sample_data, draw, env) ==
    Assign(IF use_sample_data
           THEN Return(generate_sample_snapshots(20, GridWidth, "baseline", draw))
           ELSE load_simulation_snapshots(fs, dir, "baseline"), LAMBDA the_snapshots :
    IF the_snapshots.kind = "raise"
    THEN [ret |-> the_snapshots, files |-> fs, all_frames |-> <<>>]
    ELSE IF the_snapshots.value = {}
    THEN [ret |-> Return(None), files |-> fs, all_frames |-> <<>>]
    ELSE
    Assign(compose_opening_segment(the_snapshots.value, Num(5), 60), LAMBDA opening_frames :
    IF opening_frames.kind = "raise"
    THEN [ret |-> opening_frames, files |-> fs, all_frames |-> <<>>]
    ELSE
    Assign(compose_middle_segment(the_snapshots.value, Num(5), Num(5), 60),
           LAMBDA middle_frames :
    IF middle_frames.kind = "raise"
    THEN [ret |-> middle_frames, files |-> fs, all_frames |-> opening_frames.value]
    ELSE
    Assign(IF use_sample_data
           THEN Return(generate_sample_snapshots(20, GridWidth, "rcp85", draw))
           ELSE load_simulation_snapshots(fs, dir, "rcp85"), LAMBDA loaded :
    IF loaded.kind = "raise"
    THEN [ret |-> loaded, files |-> fs,
          all_frames |-> opening_frames.value \o middle_frames.value]
    ELSE
    Assign(IF loaded.value = {}
           THEN modify_snapshots_for_scenario(the_snapshots.value, draw)
           ELSE loaded.value, LAMBDA scenario_snapshots :
    Assign(compose_finale_segment(the_snapshots.value, scenario_snapshots,
                                  Num(5), Num(10), 60), LAMBDA finale_frames :
    IF finale_frames.kind = "raise"
    THEN [ret |-> finale_frames, files |-> fs,
          all_frames |-> opening_frames.value \o middle_frames.value]
    ELSE
    Assign(opening_frames.value \o middle_frames.value \o finale_frames.value,
           LAMBDA all_frames :
    Assign(create_video_from_frames(fs, all_frames, output_name, env), LAMBDA video :
    IF video.ret.value = None
    THEN [ret |-> Return(None), files |-> video.files, all_frames |-> all_frames]
    ELSE [ret |-> video.ret,
          files |-> create_video_variants(video.files, video.ret.value[1], env),
          all_frames |-> all_frames]))))))))

(* The snapshots, directories and arguments the specification starts from *)
\* the keys of a snapshot dict: none, one, one that is not what str(float)
\* writes, and two
KeySets ==
    {{}, {str_float(0)}, {[value |-> 0, canonical |-> FALSE]}, {str_float(0), str_float(1)}}

\* a grid of one row whose first cell is burning or not, as a frame indexed
\* by (x, y), as a frame that keeps x and y as columns, and as a row list
SnapshotRows ==
    {[i \in 1..GridWidth |->
         [x |-> i - 1, y |-> 0, state |-> IF i = 1 THEN first ELSE "Tree"]] :
        first \in {"Tree", "Burning"}}

SnapshotForms == {"indexed", "columns", "list"}

Snapshot(form, rows) ==
    CASE form = "indexed" -> set_index(DataFrame(rows))
      [] form = "columns" -> DataFrame(rows)
      [] form = "list" -> list(rows)

SimulationData(form) ==
    {{[key |-> k, frame |-> Snapshot(form, rows)] : k \in ks} :
        ks \in KeySets, rows \in SnapshotRows}

CsvNames ==
    {Name("step", <<0>>, "_grid.csv"), Name("step", <<1>>, "_grid.csv"),
     Name("rcp85_step", <<0>>, "_grid.csv")}

simulation_output_dir == <<"simulation_output">>

CsvDirectories ==
    UNION {{{File(simulation_output_dir, name, content[name]) : name \in names} :
               content \in [names -> {"x,y,state", "state", "empty"}]} :
              names \in {s \in SUBSET CsvNames : Cardinality(s) <= 2}}

ComposerArgs(form) ==
    {[method |-> "compose_opening_segment", simulation_data |-> d, duration |-> t,
      fps |-> f] : d \in SimulationData(form), t \in Durations, f \in FrameRates}
    \cup {[method |-> "compose_middle_segment", simulation_data |-> d, duration |-> t,
           start_time |-> Num(1), fps |-> f] :
             d \in SimulationData(form), t \in Durations, f \in FrameRates}
    \cup {[method |-> "compose_finale_segment", baseline_data |-> d, scenario_data |-> d,
           duration |-> t, start_time |-> Num(1), fps |-> f] :
             d \in SimulationData(form), t \in Durations, f \in FrameRates}

DemoArgs ==
    {[method |-> "generate_demo_video", simulation_output_dir |-> simulation_output_dir,
      output_name |-> "demo", use_sample_data |-> u, draw |-> d, env |-> e] :
        u \in BOOLEAN, d \in {"low", "high"},
        e \in {env \in Environments : env.rmtree = "removes" /\ env.ffmpeg # "error"}}

NoFrames == [all_frames |-> <<>>]

InitComposer ==
    /\ \/ \E form \in SnapshotForms : args \in ComposerArgs(form) /\ files = NoFiles
       \/ /\ args \in DemoArgs
          /\ files \in CsvDirectories
          /\ args.use_sample_data => files = NoFiles
    /\ pool = NoPool
    /\ locals = NoFrames
    /\ timestamps = <<>>
    /\ snapshots = <<>>
    /\ sim_time = 0
    /\ call = "none"
    /\ ret = NoReturn
    /\ alpha = NoAlpha
    /\ draws = NoDraws

ComposeOpeningSegment ==
    /\ call = "none"
    /\ args.method = "compose_opening_segment"
    /\ call' = "compose_opening_segment"
    /\ ret' = compose_opening_segment(args.simulation_data, args.duration, args.fps)
    /\ UNCHANGED <<timestamps, snapshots, sim_time, alpha, draws, args, files, pool, locals>>

ComposeMiddleSegment ==
    /\ call = "none"
    /\ args.method = "compose_middle_segment"
    /\ call' = "compose_middle_segment"
    /\ ret' = compose_middle_segment(args.simulation_data, args.duration,
                                     args.start_time, args.fps)
    /\ UNCHANGED <<timestamps, snapshots, sim_time, alpha, draws, args, files, pool, locals>>

ComposeFinaleSegment ==
    /\ call = "none"
    /\ args.method = "compose_finale_segment"
    /\ call' = "compose_finale_segment"
    /\ ret' = compose_finale_segment(args.baseline_data, args.scenario_data,
                                     args.duration, args.start_time, args.fps)
    /\ UNCHANGED <<timestamps, snapshots, sim_time, alpha, draws, args, files, pool, locals>>

GenerateDemoVideo ==
    /\ call = "none"
    /\ args.method = "generate_demo_video"
    /\ call' = "generate_demo_video"
    /\ \E r \in {generate_demo_video(files, args.simulation_output_dir, args.output_name,
                                     args.use_sample_data, args.draw, args.env)} :
         /\ ret' = r.ret
         /\ files' = r.files
         /\ locals' = [all_frames |-> r.all_frames]
    /\ UNCHANGED <<timestamps, snapshots, sim_time, alpha, draws, args, pool>>

NextComposer ==
    \/ ComposeOpeningSegment
    \/ ComposeMiddleSegment
    \/ ComposeFinaleSegment
    \/ GenerateDemoVideo

SpecComposer == InitComposer /\ [][NextComposer]_vars


\* compose_opening_segment returned its frames
OpeningComposed == call = "compose_opening_segment" /\ ret.kind = "return"

\* zoom_frames of that call, and the zoom_factor _render_zoom_frame computes
\* for its frame i
ZoomFrames == Trunc(Times(zoom_duration, Num(args.fps)))

ZoomFactor(i) == Plus(Num(1), Minus(Num(1), Rat(i, ZoomFrames)))

(* C30: every frame i below zoom_frames of the opening segment is rendered *)
(* magnified by 1 + (1 - i/zoom_frames): the magnification zoom_transition *)
(* applies to the single frame _render_zoom_frame passes equals the        *)
(* zoom_factor computed there, from 2x at frame 0 down to 1x.              *)
C30_ZoomFramesMagnified ==
    OpeningComposed =>
        \A i \in 0..(Len(ret.value) - 1) :
            i < ZoomFrames =>
                /\ Same(At(ret.value, i).zoom_x, ZoomFactor(i))
                /\ Same(At(ret.value, i).zoom_y, ZoomFactor(i))

\* generate_demo_video ended, and it had snapshots to work on
DemoGenerated == call = "generate_demo_video"

SnapshotDataAvailable ==
    \/ args.use_sample_data
    \/ LET loaded == load_simulation_snapshots(files, args.simulation_output_dir, "baseline")
       IN  loaded.kind = "return" /\ loaded.value # {}

\* one of the three compose methods returned its frames
SegmentComposed ==
    /\ call \in {"compose_opening_segment", "compose_middle_segment",
                 "compose_finale_segment"}
    /\ ret.kind = "return"

SegmentCounts ==
    SegmentComposed => Len(ret.value) = Trunc(Times(args.duration, Num(args.fps)))

(* C23: whenever snapshot data is available, generate_demo_video assembles *)
(* exactly 900 frames: 300 opening frames, then 300 middle frames, then    *)
(* 300 finale frames, and each segment returns int(duration*fps) frames.   *)
C23_DemoAssembles900Frames ==
    /\ SegmentCounts
    /\ (DemoGenerated /\ SnapshotDataAvailable) =>
           /\ Len(locals.all_frames) = 900
           /\ \A i \in 1..900 :
                  locals.all_frames[i].view =
                      IF i <= 300 THEN "2d" ELSE IF i <= 600 THEN "3d"
                      ELSE IF i <= 660 THEN "wipe" ELSE "split"

====
